---------------------------- MODULE Spec2Model ----------------------------
(***************************************************************************)
(* HDMI waveform analyzer (read_waveform.py, analyze_waveform.py): the     *)
(* TERC4 codec, the BCH(31,24) checksum, bus reconstruction, the segmenter *)
(* of data islands and the packet header / ECC decoder.                    *)
(*                                                                         *)
(* Python's None for an Optional[int] is the integer None (-1): every      *)
(* value the program keeps in such a place is a natural number.  A         *)
(* tri-state Optional[bool] is one of the strings "True", "False", "None". *)
(* Indices are 0-based as in the source; sequences are 1-based, so row i   *)
(* of a list is s[i + 1].                                                  *)
(***************************************************************************)
EXTENDS Integers, Sequences, FiniteSets, TLC

None == -1

Min(a, b) == IF a < b THEN a ELSE b
Max(a, b) == IF a > b THEN a ELSE b

\* Python's s[a:b] for 0 <= a, 0 <= b.
Slice(s, a, b) == SubSeq(s, Min(a, Len(s)) + 1, Min(b, Len(s)))

\* Python's s[a:].
SliceFrom(s, a) == Slice(s, a, Len(s))

Last(s) == s[Len(s)]

(***************************************************************************)
(* Bit operations of Python's int on natural numbers.                      *)
(***************************************************************************)
RECURSIVE Pow2(_)
Pow2(n) == IF n = 0 THEN 1 ELSE 2 * Pow2(n - 1)

ShiftLeft(a, n) == a * Pow2(n)
ShiftRight(a, n) == a \div Pow2(n)

RECURSIVE BitAnd(_, _)
BitAnd(a, b) ==
    IF a = 0 \/ b = 0 THEN 0
    ELSE (a % 2) * (b % 2) + 2 * BitAnd(a \div 2, b \div 2)

RECURSIVE BitOr(_, _)
BitOr(a, b) ==
    IF a = 0 THEN b
    ELSE IF b = 0 THEN a
    ELSE Max(a % 2, b % 2) + 2 * BitOr(a \div 2, b \div 2)

RECURSIVE BitXor(_, _)
BitXor(a, b) ==
    IF a = 0 THEN b
    ELSE IF b = 0 THEN a
    ELSE (((a % 2) + (b % 2)) % 2) + 2 * BitXor(a \div 2, b \div 2)

\* bin(x).count('1')
RECURSIVE PopCount(_)
PopCount(a) == IF a = 0 THEN 0 ELSE (a % 2) + PopCount(a \div 2)

(***************************************************************************)
(* Class constants.                                                        *)
(***************************************************************************)
PREAMBLE_LENGTH == 8
GUARD_LENGTH == 2
MAX_ISLAND_SAMPLES == 96

CHANNELS == <<"red", "green", "blue">>

\* A code table in which the symbols 0x8 and 0xA share one code.
TERC4_CODES_SharedCode ==
    << \b1010011100, \b1001100011, \b1011100100, \b1011100010,
       \b0101110001, \b0100011110, \b0110001110, \b0100111100,
       \b0110011100, \b0100111001, \b0110011100, \b1011000110,
       \b1010001110, \b1001110001, \b0101100011, \b1011000011 >>

\* The codes of TERC4_TABLE in the order of its keys 0x0 .. 0xF.
TERC4_CODES ==
    << \b1010011100, \b1001100011, \b1011100100, \b1011100010,
       \b0101110001, \b0100011110, \b0110001110, \b0100111100,
       \b1011001100, \b0100111001, \b0110011100, \b1011000110,
       \b1010001110, \b1001110001, \b0101100011, \b1011000011 >>

TERC4_TABLE == [s \in 0..15 |-> TERC4_CODES[s + 1]]

\* {value: symbol for symbol, value in TERC4_TABLE.items()}: the keys are the
\* codes, and a code listed under two symbols keeps the later symbol.
TERC4_DECODE ==
    [c \in {TERC4_TABLE[s] : s \in 0..15} |->
        CHOOSE s \in 0..15 :
            /\ TERC4_TABLE[s] = c
            /\ \A t \in 0..15 : TERC4_TABLE[t] = c => t <= s]

PREAMBLE_PATTERN == [red |-> \b1101010100, green |-> \b1101010100, blue |-> \b1101010100]

GUARD_PATTERN == [red |-> \b1011001100, green |-> \b1011001100, blue |-> \b1011001100]

decode_terc4_symbol(value) ==
    IF value = None THEN None
    ELSE IF value \in DOMAIN TERC4_DECODE THEN TERC4_DECODE[value]
    ELSE None

is_guard_symbol(sample) ==
    \A i \in 1..3 : sample[CHANNELS[i]] = GUARD_PATTERN[CHANNELS[i]]

(***************************************************************************)
(* BCH(31,24) checksum.                                                    *)
(***************************************************************************)
\* The loop body with the feedback taps of x^7+x^3+x+1.
BchStep_OtherTaps(lfsr, bit) ==
    LET degree == 7
        feedback == BitXor(bit, BitAnd(ShiftRight(lfsr, degree - 1), 1))
        shifted == BitAnd(ShiftLeft(lfsr, 1), ShiftLeft(1, degree) - 1)
    IN  IF feedback # 0 THEN BitXor(shifted, 11) ELSE shifted

\* One pass of the loop body of calculate_bch_ecc for input bit `bit`.
BchStep(lfsr, bit) ==
    LET degree == 7
        feedback == BitXor(bit, BitAnd(ShiftRight(lfsr, degree - 1), 1))
        shifted == BitAnd(ShiftLeft(lfsr, 1), ShiftLeft(1, degree) - 1)
    IN  IF feedback # 0 THEN BitXor(shifted, 13) ELSE shifted

\* for i in range(23, -1, -1): the register after bits 23 .. i of data.  The
\* test of lfsr has TLC evaluate the register of the earlier passes before it
\* enters the step, which keeps the evaluation of the 24 passes shallow.
RECURSIVE BchLoop(_, _)
BchLoop(data, i) ==
    IF i > 23 THEN 0
    ELSE LET lfsr == BchLoop(data, i + 1)
             bit == BitAnd(ShiftRight(data, i), 1)
         IN  IF lfsr = 0 THEN BchStep(0, bit) ELSE BchStep(lfsr, bit)

\* read_waveform.py
calculate_bch_ecc(hb0, hb1, hb2) ==
    LET data == BitOr(BitOr(ShiftLeft(BitAnd(hb0, 255), 16),
                            ShiftLeft(BitAnd(hb1, 255), 8)),
                      BitAnd(hb2, 255))
    IN  BitAnd(BchLoop(data, 0), 127)

\* analyze_waveform.py: the header bytes are not masked.
calculate_bch_ecc_aw(hb0, hb1, hb2) ==
    LET data == BitOr(BitOr(ShiftLeft(hb0, 16), ShiftLeft(hb1, 8)), hb2)
    IN  BitAnd(BchLoop(data, 0), 127)

(***************************************************************************)
(* Packet header and ECC decoding (read_waveform.py).                      *)
(***************************************************************************)
PACKET_TYPES ==
    [t \in {0, 1, 2, 3, 4, 5, 6, 7, 10, 13} |->
        CASE t = 0 -> "Null Packet"
          [] t = 1 -> "Audio Clock Regeneration (ACR)"
          [] t = 2 -> "Audio Sample Packet"
          [] t = 3 -> "General Control Packet"
          [] t = 4 -> "AVI InfoFrame"
          [] t = 5 -> "Source Product Description InfoFrame"
          [] t = 6 -> "Audio InfoFrame"
          [] t = 7 -> "MPEG Source InfoFrame"
          [] t = 10 -> "Gamut Metadata Packet"
          [] t = 13 -> "Vendor-Specific InfoFrame"]

\* [decode_terc4_symbol(sample.get(channel)) for sample in samples[:4]]
ChannelNibbles(samples, channel) ==
    [i \in 1..Min(Len(samples), 4) |-> decode_terc4_symbol(samples[i][channel])]

\* Byte assembly that puts the first nibble in the high bits.
RECURSIVE AssembleByte_HighFirst(_, _)
AssembleByte_HighFirst(nibbles, n) ==
    IF n = 0 THEN 0
    ELSE LET rest == AssembleByte_HighFirst(nibbles, n - 1)
             nibble == nibbles[n]
         IN  IF nibble # None
             THEN BitOr(rest, ShiftLeft(BitAnd(nibble, 3), (4 - n) * 2))
             ELSE rest

\* byte |= ((nibble & 0x3) << (i * 2)) for every nibble i that is not None,
\* taken over the first n nibbles.
RECURSIVE AssembleByte(_, _)
AssembleByte(nibbles, n) ==
    IF n = 0 THEN 0
    ELSE LET rest == AssembleByte(nibbles, n - 1)
             nibble == nibbles[n]
         IN  IF nibble # None
             THEN BitOr(rest, ShiftLeft(BitAnd(nibble, 3), (n - 1) * 2))
             ELSE rest

\* The test for a missing nibble that looks at the first nibble only.
NoneIn_FirstOnly(nibbles) == Len(nibbles) > 0 /\ nibbles[1] = None

\* None in nibbles[:4]
NoneIn(nibbles) == \E i \in 1..Len(nibbles) : nibbles[i] = None

\* f"Unknown (0x{hb0:02X})" is the tuple <<"Unknown", hb0>>; a label of
\* PACKET_TYPES and "Incomplete header" are one-element tuples.
decode_packet_header(header_samples) ==
    LET red_nibbles == ChannelNibbles(header_samples, "red")
        green_nibbles == ChannelNibbles(header_samples, "green")
        blue_nibbles == ChannelNibbles(header_samples, "blue")
        hb0 == AssembleByte(red_nibbles, Len(red_nibbles))
        hb1 == AssembleByte(green_nibbles, Len(green_nibbles))
        hb2 == AssembleByte(blue_nibbles, Len(blue_nibbles))
        has_full_header ==
            /\ Len(header_samples) >= 4
            /\ ~NoneIn(red_nibbles)
            /\ ~NoneIn(green_nibbles)
            /\ ~NoneIn(blue_nibbles)
        packet_type == IF has_full_header THEN hb0 ELSE None
        packet_name ==
            IF packet_type # None
            THEN IF packet_type \in DOMAIN PACKET_TYPES
                 THEN <<PACKET_TYPES[packet_type]>>
                 ELSE <<"Unknown", hb0>>
            ELSE <<"Incomplete header">>
    IN  [packet_type |-> packet_type,
         packet_name |-> packet_name,
         hb0 |-> hb0,
         hb1 |-> hb1,
         hb2 |-> hb2,
         nibbles |-> [red |-> red_nibbles, green |-> green_nibbles, blue |-> blue_nibbles],
         complete |-> has_full_header]

\* A two-state comparison that reports a missing expected value as a mismatch.
EccMatch_TwoState(expected_ecc, ecc_value) ==
    IF expected_ecc = ecc_value THEN "True" ELSE "False"

\* The comparison of line 491 and the tri-state of line 496.
EccMatch(expected_ecc, ecc_value) ==
    IF expected_ecc # None
    THEN (IF expected_ecc = ecc_value THEN "True" ELSE "False")
    ELSE "None"

decode_ecc(ecc_samples, header_info) ==
    LET red_nibbles == ChannelNibbles(ecc_samples, "red")
        ecc_value == AssembleByte(red_nibbles, Len(red_nibbles))
        expected_ecc ==
            IF header_info.complete
            THEN calculate_bch_ecc(header_info.hb0, header_info.hb1, header_info.hb2)
            ELSE None
    IN  [received |-> ecc_value,
         expected |-> expected_ecc,
         match |-> EccMatch(expected_ecc, ecc_value),
         nibbles |-> red_nibbles]

(***************************************************************************)
(* Segment decomposition of one island (read_waveform.py).                 *)
(***************************************************************************)
\* One entry of build_segment_entries.
SegmentEntry(sample, segment_type) ==
    LET decoded == [c \in {"red", "green", "blue"} |-> decode_terc4_symbol(sample[c])]
        expected ==
            [c \in {"red", "green", "blue"} |->
                IF segment_type = "preamble" THEN PREAMBLE_PATTERN[c]
                ELSE IF segment_type \in {"guard_leading", "guard_trailing"}
                THEN GUARD_PATTERN[c]
                ELSE IF decoded[c] # None THEN TERC4_TABLE[decoded[c]]
                ELSE None]
    IN  [time |-> sample.time,
         h_count |-> sample.h_count,
         values |-> [c \in {"red", "green", "blue"} |-> sample[c]],
         decoded |-> decoded,
         expected |-> expected,
         match |-> [c \in {"red", "green", "blue"} |->
                      IF expected[c] = None \/ sample[c] = None THEN "None"
                      ELSE IF sample[c] = expected[c] THEN "True"
                      ELSE "False"]]

build_segment_entries(segment_samples, segment_type) ==
    [i \in 1..Len(segment_samples) |-> SegmentEntry(segment_samples[i], segment_type)]

\* all(self.is_guard_symbol(sample) for sample in samples[idx:idx + GUARD_LENGTH])
GuardWindow(samples, idx) ==
    LET window == Slice(samples, idx, idx + GUARD_LENGTH)
    IN  /\ Len(window) >= GUARD_LENGTH
        /\ \A k \in 1..Len(window) : is_guard_symbol(window[k])

\* The forward search of locate_leading_guard: the indices of range(start_idx,
\* max(len(samples) - GUARD_LENGTH + 1, start_idx)) whose window is a guard.
LeadingHits(samples, start_idx) ==
    {idx \in start_idx..(Max(Len(samples) - GUARD_LENGTH + 1, start_idx) - 1) :
        GuardWindow(samples, idx)}

SetMin(S) == CHOOSE x \in S : \A y \in S : x <= y
SetMax(S) == CHOOSE x \in S : \A y \in S : x >= y

\* The forward search returning the last matching window instead of the first.
locate_leading_guard_LastWindow(samples, start_idx) ==
    IF start_idx >= Len(samples) THEN [guard |-> <<>>, index |-> start_idx]
    ELSE IF LeadingHits(samples, start_idx) # {}
    THEN LET idx == SetMax(LeadingHits(samples, start_idx))
         IN  [guard |-> Slice(samples, idx, idx + GUARD_LENGTH),
              index |-> idx + GUARD_LENGTH]
    ELSE LET end_idx == Min(start_idx + GUARD_LENGTH, Len(samples))
         IN  [guard |-> Slice(samples, start_idx, end_idx), index |-> end_idx]

\* Returns (guard_samples, next_index_after_guard).
locate_leading_guard(samples, start_idx) ==
    IF start_idx >= Len(samples) THEN [guard |-> <<>>, index |-> start_idx]
    ELSE IF LeadingHits(samples, start_idx) # {}
    THEN LET idx == SetMin(LeadingHits(samples, start_idx))
         IN  [guard |-> Slice(samples, idx, idx + GUARD_LENGTH),
              index |-> idx + GUARD_LENGTH]
    ELSE LET end_idx == Min(start_idx + GUARD_LENGTH, Len(samples))
         IN  [guard |-> Slice(samples, start_idx, end_idx), index |-> end_idx]

\* The backward search of locate_trailing_guard: range(len(samples) -
\* GUARD_LENGTH, min_start_idx - 1, -1); a negative index would make the slice
\* count from the end, which the search reaches only when min_start_idx < 0.
TrailingHits(samples, min_start_idx) ==
    {idx \in min_start_idx..(Len(samples) - GUARD_LENGTH) : GuardWindow(samples, idx)}

\* Returns (guard_samples, start_index_of_guard).
locate_trailing_guard(samples, min_start_idx) ==
    IF Len(samples) = 0 THEN [guard |-> <<>>, index |-> 0]
    ELSE IF TrailingHits(samples, min_start_idx) # {}
    THEN LET idx == SetMax(TrailingHits(samples, min_start_idx))
         IN  [guard |-> Slice(samples, idx, idx + GUARD_LENGTH), index |-> idx]
    ELSE LET start_idx == Max(Len(samples) - GUARD_LENGTH, min_start_idx)
         IN  IF start_idx < Len(samples)
             THEN [guard |-> SliceFrom(samples, start_idx), index |-> start_idx]
             ELSE [guard |-> <<>>, index |-> Len(samples)]

\* The count of leading samples with preamble_active set (lines 389-394).
PreambleRun(samples) ==
    LET clear == {k \in 1..Len(samples) : ~samples[k].preamble_active}
    IN  IF clear = {} THEN Len(samples) ELSE SetMin(clear) - 1

\* The sample lists with the data samples running to the end of the island
\* whether or not a trailing guard was taken.
island_segments_DataToEnd(samples) ==
    LET run == PreambleRun(samples)
        preamble_length == IF run = 0 THEN Min(PREAMBLE_LENGTH, Len(samples)) ELSE run
        leading == locate_leading_guard(samples, preamble_length)
        data_start_idx == leading.index
        trailing == locate_trailing_guard(samples, data_start_idx)
        data_samples == SliceFrom(samples, data_start_idx)
    IN  [preamble |-> Slice(samples, 0, preamble_length),
         guard_leading |-> leading.guard,
         header |-> Slice(data_samples, 0, 4),
         ecc |-> Slice(data_samples, 4, 8),
         payload |-> SliceFrom(data_samples, 8),
         guard_trailing |-> IF trailing.index <= data_start_idx THEN <<>> ELSE trailing.guard]

\* The sample lists with the payload starting one sample late.
island_segments_PayloadLate(samples) ==
    LET run == PreambleRun(samples)
        preamble_length == IF run = 0 THEN Min(PREAMBLE_LENGTH, Len(samples)) ELSE run
        leading == locate_leading_guard(samples, preamble_length)
        data_start_idx == leading.index
        trailing == locate_trailing_guard(samples, data_start_idx)
        trailing_start_idx == trailing.index
        no_trailing == trailing_start_idx <= data_start_idx
        data_samples ==
            IF no_trailing THEN SliceFrom(samples, data_start_idx)
            ELSE Slice(samples, data_start_idx, trailing_start_idx)
    IN  [preamble |-> Slice(samples, 0, preamble_length),
         guard_leading |-> leading.guard,
         header |-> Slice(data_samples, 0, 4),
         ecc |-> Slice(data_samples, 4, 8),
         payload |-> SliceFrom(data_samples, 9),
         guard_trailing |-> IF no_trailing THEN <<>> ELSE trailing.guard]

\* The six sample lists of decode_data_island, before build_segment_entries.
island_segments(samples) ==
    LET run == PreambleRun(samples)
        preamble_length == IF run = 0 THEN Min(PREAMBLE_LENGTH, Len(samples)) ELSE run
        leading == locate_leading_guard(samples, preamble_length)
        data_start_idx == leading.index
        trailing == locate_trailing_guard(samples, data_start_idx)
        trailing_start_idx == trailing.index
        no_trailing == trailing_start_idx <= data_start_idx
        data_samples ==
            IF no_trailing THEN SliceFrom(samples, data_start_idx)
            ELSE Slice(samples, data_start_idx, trailing_start_idx)
    IN  [preamble |-> Slice(samples, 0, preamble_length),
         guard_leading |-> leading.guard,
         header |-> Slice(data_samples, 0, 4),
         ecc |-> Slice(data_samples, 4, 8),
         payload |-> SliceFrom(data_samples, 8),
         guard_trailing |-> IF no_trailing THEN <<>> ELSE trailing.guard]

SEGMENT_TYPES == {"preamble", "guard_leading", "header", "ecc", "payload", "guard_trailing"}

\* decode_data_island for a non-empty island (an empty one returns None, and
\* analyze_data_islands never passes one).
decode_data_island(samples) ==
    LET seg == island_segments(samples)
        header_info == decode_packet_header(seg.header)
    IN  [segments |-> [t \in SEGMENT_TYPES |-> build_segment_entries(seg[t], t)],
         header |-> header_info,
         ecc |-> decode_ecc(seg.ecc, header_info),
         total_samples |-> Len(samples)]

(***************************************************************************)
(* Bus reconstruction (reconstruct_buses, the same in both files).         *)
(***************************************************************************)
\* The characters str.strip() and int() take for blanks, as far as a string
\* of the model can hold them.
\* The text without the characters of `blanks` on both sides.
StripChars(text, blanks) ==
    LET kept == {k \in 1..Len(text) : SubSeq(text, k, k) \notin blanks}
    IN  IF kept = {} THEN "" ELSE SubSeq(text, SetMin(kept), SetMax(kept))

\* str.strip(): the whitespace on both sides is removed.  Whitespace is the
\* space, \t, \n, \r, \f and, written below as the characters themselves, the
\* vertical tab (0x0B), the separators 0x1C, 0x1D, 0x1E and 0x1F, the next
\* line character (0x85) and the no-break space (0xA0); the whitespace of
\* Unicode above 0xFF cannot occur in a string of this module.
Strip(cell) ==
    StripChars(cell, {" ", "\t", "\n", "\r", "\f", "", "", "", "", "",
                      "", " "})

\* needle in text
Contains(text, needle) ==
    \E k \in 1..(Len(text) - Len(needle) + 1) :
        SubSeq(text, k, k + Len(needle) - 1) = needle

CharAt(text, k) == SubSeq(text, k, k)

IsDigit(c) == \E d \in 0..9 : CharAt("0123456789", d + 1) = c

\* The value of a run of decimal digits.
RECURSIVE DigitsValue(_)
DigitsValue(digits) ==
    IF Len(digits) = 0 THEN 0
    ELSE 10 * DigitsValue(SubSeq(digits, 1, Len(digits) - 1))
         + (CHOOSE d \in 0..9 : CharAt("0123456789", d + 1) = CharAt(digits, Len(digits)))

RECURSIVE WithoutUnderscores(_)
WithoutUnderscores(text) ==
    IF Len(text) = 0 THEN ""
    ELSE IF Head(text) = "_" THEN WithoutUnderscores(Tail(text))
    ELSE Head(text) \o WithoutUnderscores(Tail(text))

\* int(text): whitespace around the literal, an optional sign, then decimal
\* digits with single underscores between them; ok is FALSE where int raises
\* ValueError.  int skips the whitespace of str.strip() except the
\* separators 0x1C to 0x1F, which it rejects.
py_int(text) ==
    LET t == StripChars(text, {" ", "\t", "\n", "\r", "\f", "", "", " "})
        signed == Len(t) > 0 /\ Head(t) \in {"+", "-"}
        body == IF signed THEN Tail(t) ELSE t
        ok == /\ Len(body) > 0
              /\ IsDigit(Head(body))
              /\ IsDigit(CharAt(body, Len(body)))
              /\ \A k \in 1..Len(body) : IsDigit(CharAt(body, k)) \/ CharAt(body, k) = "_"
              /\ \A k \in 1..(Len(body) - 1) :
                    ~(CharAt(body, k) = "_" /\ CharAt(body, k + 1) = "_")
        magnitude == DigitsValue(WithoutUnderscores(body))
    IN  [ok |-> ok,
         value |-> IF ~ok THEN 0
                   ELSE IF signed /\ Head(t) = "-" THEN 0 - magnitude ELSE magnitude]

\* bus_pattern.search(header) for (.+)[[](\d+)]: the match starts at the
\* first position from which a bracketed number can be reached, and the
\* greedy (.+) runs from there to the last bracketed number it can reach.
\* The dot matches no newline, so (.+) lies within one line of the header.
\* run_end(k) is the end of the run of digits that starts at position k
\* (k - 1 if none); bracket(k) says that '[', one digit or more and ']'
\* start at position k; line_start(k) is the first position of the line
\* that ends just before position k.
bus_pattern(header) ==
    LET run_end(k) == SetMax({e \in (k - 1)..Len(header) :
                                 \A j \in k..e : IsDigit(CharAt(header, j))})
        bracket(k) == /\ CharAt(header, k) = "["
                      /\ run_end(k + 1) >= k + 1
                      /\ run_end(k + 1) < Len(header)
                      /\ CharAt(header, run_end(k + 1) + 1) = "]"
        line_start(k) == SetMax({1} \cup {j + 1 : j \in {i \in 1..(k - 1) :
                                                            CharAt(header, i) = "\n"}})
        hits == {k \in 2..Len(header) : bracket(k) /\ line_start(k) < k}
    IN  IF hits = {} THEN [match |-> FALSE, bus_name |-> "", bit_num |-> 0]
        ELSE LET first == line_start(SetMin(hits))
                 k == SetMax({j \in hits : line_start(j) = first})
             IN  [match |-> TRUE,
                  bus_name |-> SubSeq(header, first, k - 1),
                  bit_num |-> DigitsValue(SubSeq(header, k + 1, run_end(k + 1)))]

\* bus_info[bus_name]: the pairs (bit_num, idx) of the headers of the bus.
BusBits(hdrs, bus_name) ==
    {<<bus_pattern(hdrs[i]).bit_num, i - 1>> :
        i \in {j \in 1..Len(hdrs) :
                  bus_pattern(hdrs[j]).match /\ bus_pattern(hdrs[j]).bus_name = bus_name}}

BusNames(hdrs) ==
    {bus_pattern(hdrs[i]).bus_name : i \in {j \in 1..Len(hdrs) : bus_pattern(hdrs[j]).match}}

\* The order of Python's tuples.
PairLess(p, q) == p[1] < q[1] \/ (p[1] = q[1] /\ p[2] < q[2])

\* bits.sort(reverse=True)
RECURSIVE SortReverse(_)
SortReverse(pairs) ==
    IF pairs = {} THEN <<>>
    ELSE LET top == CHOOSE p \in pairs : \A q \in pairs : q = p \/ PairLess(q, p)
         IN  <<top>> \o SortReverse(pairs \ {top})

\* The loop over the bits of one bus with an 'X' bit skipped like a '0'.
RECURSIVE BusValueFrom_SkipX(_, _, _, _)
BusValueFrom_SkipX(bits, k, row, bus_value) ==
    IF k > Len(bits) THEN bus_value
    ELSE LET bit_num == bits[k][1]
             col_idx == bits[k][2]
         IN  IF col_idx < Len(row) /\ Strip(row[col_idx + 1]) = "1"
             THEN BusValueFrom_SkipX(bits, k + 1, row, BitOr(bus_value, ShiftLeft(1, bit_num)))
             ELSE BusValueFrom_SkipX(bits, k + 1, row, bus_value)

\* The loop over the bits of one bus for one row, from the k-th bit on, with
\* bus_value the value so far: None once a bit is 'X' (has_x and the break).
RECURSIVE BusValueFrom(_, _, _, _)
BusValueFrom(bits, k, row, bus_value) ==
    IF k > Len(bits) THEN bus_value
    ELSE LET bit_num == bits[k][1]
             col_idx == bits[k][2]
         IN  IF col_idx < Len(row)
             THEN IF Strip(row[col_idx + 1]) = "X" THEN None
                  ELSE IF Strip(row[col_idx + 1]) = "1"
                  THEN BusValueFrom(bits, k + 1, row, BitOr(bus_value, ShiftLeft(1, bit_num)))
                  ELSE BusValueFrom(bits, k + 1, row, bus_value)
             ELSE BusValueFrom(bits, k + 1, row, bus_value)

\* The new value of bus_signals: the buses of the headers are rebuilt from
\* every row, the other entries of `old` stay.
reconstruct_buses(hdrs, rows, old) ==
    [bus_name \in (DOMAIN old) \cup BusNames(hdrs) |->
        IF bus_name \in BusNames(hdrs)
        THEN [r \in 1..Len(rows) |->
                BusValueFrom(SortReverse(BusBits(hdrs, bus_name)), 1, rows[r], 0)]
        ELSE old[bus_name]]

(***************************************************************************)
(* State.                                                                  *)
(*                                                                         *)
(* pc is the position of the running operation.  headers, data,            *)
(* bus_signals and packet_info are the analyzer's fields: a header is the  *)
(* text of a column name, and a row of data is the tuple of the texts of   *)
(* its cells, with the time in column 0.  idx and prev_preamble are        *)
(* the locals of the loop of analyze_data_islands; samples, cidx (its idx) *)
(* and prev_h those of collect_data_island.                                *)
(*                                                                         *)
(* The other variables are the arguments and results of the functions that *)
(* are run on their own: island and decoded_island of decode_data_island   *)
(* (a result is <<>> until the call returns, then <<result>>);             *)
(* header_samples, ecc_samples, header_info and ecc_info of                *)
(* decode_packet_header and decode_ecc; hb = <<hb0, hb1, hb2>> and bch_ecc *)
(* of calculate_bch_ecc (hb is also the header a test vector of            *)
(* header_samples is built from); symbol, value and decoded of the TERC4   *)
(* table and decode_terc4_symbol.                                          *)
(***************************************************************************)
VARIABLES pc, headers, data, bus_signals, packet_info,
          idx, prev_preamble, samples, cidx, prev_h,
          island, decoded_island,
          header_samples, ecc_samples, header_info, ecc_info,
          hb, bch_ecc,
          symbol, value, decoded,
          capture, runs, single,
          data_islands, island_data, report

analyzerVars == <<headers, data, bus_signals, packet_info>>
scanVars == <<idx, prev_preamble, samples, cidx, prev_h>>
islandVars == <<island, decoded_island>>
headerVars == <<header_samples, ecc_samples, header_info, ecc_info>>
bchVars == <<hb, bch_ecc>>
terc4Vars == <<symbol, value, decoded>>
pipeVars == <<capture, runs, single>>
awVars == <<data_islands, island_data, report>>

vars == <<pc, analyzerVars, scanVars, islandVars, headerVars, bchVars, terc4Vars,
          pipeVars, awVars>>

\* The values of the variables an operation does not use.
AnalyzerOff ==
    /\ headers = <<>>
    /\ data = <<>>
    /\ bus_signals = <<>>
    /\ packet_info = <<>>

ScanOff ==
    /\ idx = 0
    /\ prev_preamble = FALSE
    /\ samples = <<>>
    /\ cidx = 0
    /\ prev_h = None

IslandOff == island = <<>> /\ decoded_island = <<>>

HeaderOff ==
    /\ header_samples = <<>>
    /\ ecc_samples = <<>>
    /\ header_info = <<>>
    /\ ecc_info = <<>>

BchOff == hb = <<0, 0, 0>> /\ bch_ecc = None

Terc4Off == symbol = None /\ value = None /\ decoded = None

PipeOff == capture = <<>> /\ runs = 0 /\ single = <<>>

AwOff == data_islands = <<>> /\ island_data = <<>> /\ report = <<>>

(***************************************************************************)
(* The scan of analyze_data_islands and collect_data_island.               *)
(***************************************************************************)
\* Rows of a complete table beyond MaxRows are not enumerated; the tables that
\* reach MAX_ISLAND_SAMPLES are LongTables.
MaxRows == 4
\* The horizontal counter of an enumerated table is None or in 0..MaxH.
MaxH == 1
\* A long table holds up to MAX_ISLAND_SAMPLES + LongExtra rows.
LongExtra == 3

\* for idx, header in enumerate(self.headers): if signal_name in header: the
\* first header that holds signal_name as a part of its text.
get_signal_column(hdrs, signal_name) ==
    IF \E i \in 1..Len(hdrs) : Contains(hdrs[i], signal_name)
    THEN SetMin({i \in 1..Len(hdrs) : Contains(hdrs[i], signal_name)}) - 1
    ELSE -1

BUS_NAMES == {"horizontal_counter", "tmds_encoded_red", "tmds_encoded_green",
              "tmds_encoded_blue"}

\* Row i of the channel buses of a generated table: a TERC4 code.
ChannelValue(i, k) == TERC4_TABLE[(i + k) % 16]

MakeBuses(h) ==
    [b \in BUS_NAMES |->
        IF b = "horizontal_counter" THEN h
        ELSE IF b = "tmds_encoded_red" THEN [i \in 1..Len(h) |-> ChannelValue(i, 0)]
        ELSE IF b = "tmds_encoded_green" THEN [i \in 1..Len(h) |-> ChannelValue(i, 5)]
        ELSE [i \in 1..Len(h) |-> ChannelValue(i, 10)]]

\* The rows of a table whose enable column is pre: the time cell is the row
\* index in decimal and the enable cell the bare value, or, when `plain` is
\* FALSE, the cells have whitespace around the value (a vertical tab, a
\* separator, a space, a tab) and the time cell of every second
\* row is no integer.
MakeData(pre, plain) ==
    [i \in 1..Len(pre) |->
        IF plain THEN <<ToString(i - 1), pre[i]>>
        ELSE IF i % 2 = 0 THEN <<"t" \o ToString(i - 1), " " \o pre[i] \o "">>
        ELSE <<"" \o ToString(i - 1) \o "\t", "" \o pre[i] \o " ">>]

\* Every table of at most MaxRows rows.
SmallTables ==
    UNION {[1..n -> {"0", "1"} \X ({None} \cup 0..MaxH)] : n \in 0..MaxRows}

\* Long tables: the enable signal rises at row `rise` and stays high, or falls
\* again at row `rise + 40`; the counter is unknown, counts up, counts modulo
\* 64, or drops once right after the rise ("early").
LongTables ==
    {[i \in 1..n |->
        << IF i - 1 >= rise /\ (stay \/ i - 1 < rise + 40) THEN "1" ELSE "0",
           CASE hmode = "none" -> None
             [] hmode = "up" -> i - 1
             [] hmode = "wrap" -> (i - 1) % 64
             [] hmode = "early" -> IF i - 1 <= rise THEN 1 ELSE 0 >>] :
        n \in (MAX_ISLAND_SAMPLES - 1)..(MAX_ISLAND_SAMPLES + LongExtra),
        rise \in 0..1, stay \in BOOLEAN, hmode \in {"none", "up", "wrap", "early"}}

ScanInit ==
    /\ pc = "idle"
    /\ \E t \in SmallTables \cup LongTables : \E plain \in BOOLEAN :
          /\ data = MakeData([i \in 1..Len(t) |-> t[i][1]], plain)
          /\ \E missing \in {{}} \cup (IF Len(t) = 1 THEN {{b} : b \in BUS_NAMES} ELSE {}) :
                bus_signals = [b \in BUS_NAMES \ missing |->
                                  MakeBuses([i \in 1..Len(t) |-> t[i][2]])[b]]
          /\ headers \in {IF plain THEN <<"time", "preamble_active">>
                           ELSE <<"time unit: ns", "u_hdmi/preamble_active_d">>} \cup
                         (IF Len(t) = 1 THEN {<<"time">>} ELSE {})
    /\ packet_info = <<>>
    /\ ScanOff
    /\ IslandOff /\ HeaderOff /\ BchOff /\ Terc4Off /\ PipeOff /\ AwOff

notScan == <<islandVars, headerVars, bchVars, terc4Vars, pipeVars, awVars>>

preamble_col_idx == get_signal_column(headers, "preamble_active")

\* Lines 331-351: the early returns and the start of the scan.
AnalyzeStart ==
    /\ pc = "idle"
    /\ IF \/ preamble_col_idx < 0
          \/ "horizontal_counter" \notin DOMAIN bus_signals
          \/ "tmds_encoded_red" \notin DOMAIN bus_signals
          \/ "tmds_encoded_green" \notin DOMAIN bus_signals
          \/ "tmds_encoded_blue" \notin DOMAIN bus_signals
       THEN pc' = "done" /\ UNCHANGED <<idx, prev_preamble>>
       ELSE pc' = "scan" /\ idx' = 0 /\ prev_preamble' = FALSE
    /\ UNCHANGED <<headers, data, bus_signals, packet_info, samples, cidx, prev_h, notScan>>

\* row[preamble_col_idx].strip() == '1'
PreambleActive(row) == Strip(row[preamble_col_idx + 1]) = "1"

\* Line 357: a burst starts here.
StartsBurst(preamble_active, prev) == preamble_active /\ ~prev

\* One pass of the outer loop that starts no burst (lines 353-357, 381-382).
ScanStep ==
    /\ pc = "scan"
    /\ idx < Len(data)
    /\ ~StartsBurst(PreambleActive(data[idx + 1]), prev_preamble)
    /\ prev_preamble' = PreambleActive(data[idx + 1])
    /\ idx' = idx + 1
    /\ UNCHANGED <<pc, headers, data, bus_signals, packet_info, samples, cidx, prev_h, notScan>>

\* The call of collect_data_island (lines 357-358, 103-105).
CollectCall ==
    /\ pc = "scan"
    /\ idx < Len(data)
    /\ StartsBurst(PreambleActive(data[idx + 1]), prev_preamble)
    /\ pc' = "collect"
    /\ samples' = <<>>
    /\ cidx' = idx
    /\ prev_h' = None
    /\ UNCHANGED <<headers, data, bus_signals, packet_info, idx, prev_preamble, notScan>>

\* bus[idx] if bus and idx < len(bus) else None
BusAt(bus, i) == IF Len(bus) > 0 /\ i < Len(bus) THEN bus[i + 1] ELSE None

\* Lines 108-127: the time is the row index when the time cell is no integer.
MakeSample(i) ==
    [index |-> i,
     time |-> IF py_int(data[i + 1][1]).ok THEN py_int(data[i + 1][1]).value ELSE i,
     h_count |-> BusAt(bus_signals["horizontal_counter"], i),
     preamble_active |-> PreambleActive(data[i + 1]),
     red |-> BusAt(bus_signals["tmds_encoded_red"], i),
     green |-> BusAt(bus_signals["tmds_encoded_green"], i),
     blue |-> BusAt(bus_signals["tmds_encoded_blue"], i)]

\* The loop condition with the cap tested with <=.
CollectGuard_Inclusive(i, n, count) == i < n /\ count <= MAX_ISLAND_SAMPLES

\* Line 107.
CollectGuard(i, n, count) == i < n /\ count < MAX_ISLAND_SAMPLES

\* Line 132.
IsWrap(prev, h_count) == prev # None /\ h_count # None /\ h_count < prev

\* The wrap branch without the step back of idx.
WrapResume_NoStepBack(i) == i

\* Line 135: step back so the caller resumes from the wrap sample.
WrapResume(i) == i - 1

\* One pass of the loop of collect_data_island (lines 107-139).
CollectStep ==
    /\ pc = "collect"
    /\ CollectGuard(cidx, Len(data), Len(samples))
    /\ LET sample == MakeSample(cidx)
       IN  IF IsWrap(prev_h, sample.h_count)
           THEN /\ samples' = samples      \* appended, then popped
                /\ cidx' = WrapResume(cidx)
                /\ pc' = "wrap_break"
                /\ UNCHANGED prev_h
           ELSE /\ samples' = Append(samples, sample)
                /\ prev_h' = sample.h_count
                /\ cidx' = cidx + 1
                /\ UNCHANGED pc
    /\ UNCHANGED <<headers, data, bus_signals, packet_info, idx, prev_preamble, notScan>>

\* The returned index one sample back, inside the island.
NextIndex_Back(i, n) == Max(Min(i, n) - 1, 0)

\* The returned index without the advance by one.
NextIndex_NoAdvance(i, n) == Min(i, n)

\* Line 141.
NextIndex(i, n) == Min(i + 1, n)

\* Lines 370-376.
PacketRecord(collected) ==
    [start_time |-> collected[1].time,
     end_time |-> Last(collected).time,
     start_h_count |-> collected[1].h_count,
     end_h_count |-> Last(collected).h_count,
     decoded_island |-> decode_data_island(collected)]

\* The return of collect_data_island, after the break or when the loop's
\* condition fails, and the caller's lines 367-379.
CollectReturn ==
    /\ \/ pc = "wrap_break"
       \/ pc = "collect" /\ ~CollectGuard(cidx, Len(data), Len(samples))
    /\ packet_info' = IF samples # <<>> THEN Append(packet_info, PacketRecord(samples))
                      ELSE packet_info
    /\ idx' = NextIndex(cidx, Len(data))
    /\ prev_preamble' = FALSE
    /\ pc' = "scan"
    /\ UNCHANGED <<headers, data, bus_signals, samples, cidx, prev_h, notScan>>

\* Line 353: the scan ends.
ScanEnd ==
    /\ pc = "scan"
    /\ idx >= Len(data)
    /\ pc' = "done"
    /\ UNCHANGED <<headers, data, bus_signals, packet_info, idx, prev_preamble,
                   samples, cidx, prev_h, notScan>>

Next == AnalyzeStart \/ ScanStep \/ CollectCall \/ CollectStep \/ CollectReturn \/ ScanEnd

Spec == ScanInit /\ [][Next]_vars

(***************************************************************************)
(* Properties of the scan.                                                 *)
(***************************************************************************)
HCounter(i) == BusAt(bus_signals["horizontal_counter"], i)

\* C1: when collect_data_island stops at a counter wrap at sample w (the
\* counter at w is known and lower than the known counter at w - 1), sample w
\* is not in the island, the island's last sample is w - 1, the record made of
\* the island ends at w - 1, and the outer scan examines w next with
\* prev_preamble cleared, so that w can start the next burst.
C1_WrapSampleRescanned ==
    [][pc = "wrap_break" =>
          LET w == cidx + 1
          IN  /\ HCounter(w) # None /\ HCounter(w - 1) # None
              /\ HCounter(w) < HCounter(w - 1)
              /\ samples # <<>>
              /\ Last(samples).index = w - 1
              /\ \A k \in 1..Len(samples) : samples[k].index # w
              /\ pc' = "scan"
              /\ idx' = w
              /\ prev_preamble' = FALSE
              /\ Len(packet_info') = Len(packet_info) + 1
              /\ Last(packet_info').end_time = w - 1
              /\ Last(packet_info').decoded_island.total_samples = Len(samples)]_vars

\* The scan is back at a wrap sample that starts the next burst: the last
\* island ended right before it.
C1_Witness ==
    /\ pc = "scan"
    /\ idx >= 1 /\ idx < Len(data)
    /\ packet_info # <<>>
    /\ Last(packet_info).end_time = idx - 1
    /\ IsWrap(HCounter(idx - 1), HCounter(idx))
    /\ ~prev_preamble
    /\ PreambleActive(data[idx + 1])

\* C2: the island being collected and every recorded island hold at most
\* MAX_ISLAND_SAMPLES samples.
C2_IslandCap ==
    /\ Len(samples) <= MAX_ISLAND_SAMPLES
    /\ \A k \in 1..Len(packet_info) :
          packet_info[k].decoded_island.total_samples <= MAX_ISLAND_SAMPLES

\* The enable signal is high on every row of a table longer than the cap, the
\* counter never wraps, and the first island stopped at the cap.
C2_Witness ==
    /\ pc = "done"
    /\ Len(data) > MAX_ISLAND_SAMPLES
    /\ \A i \in 1..Len(data) : data[i][2] = "1"
    /\ \A i \in 1..(Len(data) - 1) : ~IsWrap(HCounter(i - 1), HCounter(i))
    /\ packet_info # <<>>
    /\ packet_info[1].decoded_island.total_samples = MAX_ISLAND_SAMPLES

\* The variant of analyze_data_islands: the rows the outer loop has left, then
\* the position, then the rows the inner loop has left.
ScanRank ==
    LET n == Len(data)
        phase == CASE pc = "idle" -> 4
                   [] pc = "scan" -> 3
                   [] pc = "collect" -> 2
                   [] pc = "wrap_break" -> 1
                   [] OTHER -> 0
        inner == IF pc = "collect" THEN n - cidx + 1 ELSE 0
    IN  IF pc = "done" THEN 0
        ELSE 1 + (n - idx) * 5 * (n + 2) + phase * (n + 2) + inner

\* C3: analyze_data_islands terminates: every step lowers ScanRank, which is
\* never negative; every return of collect_data_island called at index idx
\* gives a next index above idx and at most the table length; the scan index
\* never decreases.
C3_ScanTerminates ==
    [][/\ ScanRank >= 0
       /\ ScanRank' >= 0
       /\ ScanRank' < ScanRank
       /\ idx' >= idx
       /\ idx' <= Len(data)
       /\ (pc \in {"collect", "wrap_break"} /\ pc' = "scan" => idx' > idx)]_vars

\* A scan that ended after a wrap exit, a cap exit and an end-of-table exit.
C3_Witness ==
    /\ pc = "done"
    /\ Len(packet_info) = 3
    /\ packet_info[1].decoded_island.total_samples = 1
    /\ packet_info[2].decoded_island.total_samples = MAX_ISLAND_SAMPLES
    /\ packet_info[3].end_time = Len(data) - 1

(***************************************************************************)
(* decode_terc4_symbol run on its own: on the code of a symbol of          *)
(* TERC4_TABLE, and on every 10-bit value and None.                        *)
(***************************************************************************)
Terc4Init ==
    /\ pc = "terc4_call"
    /\ \/ symbol \in 0..15 /\ value = TERC4_TABLE[symbol]
       \/ symbol = None /\ value \in {None} \cup 0..1023
    /\ decoded = None
    /\ AnalyzerOff /\ ScanOff /\ IslandOff /\ HeaderOff /\ BchOff /\ PipeOff /\ AwOff

Terc4Decode ==
    /\ pc = "terc4_call"
    /\ decoded' = decode_terc4_symbol(value)
    /\ pc' = "terc4_done"
    /\ UNCHANGED <<symbol, value, analyzerVars, scanVars, islandVars, headerVars, bchVars,
                   pipeVars, awVars>>

SpecTerc4 == Terc4Init /\ [][Terc4Decode]_vars

(***************************************************************************)
(* calculate_bch_ecc run on its own.                                       *)
(***************************************************************************)
\* Header bytes are drawn from 0..MaxLowByte and the multiples of 51.
MaxLowByte == 7

SampleBytes == {b \in 0..255 : b <= MaxLowByte \/ b % 51 = 0}

BchInit ==
    /\ pc = "bch_call"
    /\ hb \in SampleBytes \X SampleBytes \X SampleBytes
    /\ bch_ecc = None
    /\ AnalyzerOff /\ ScanOff /\ IslandOff /\ HeaderOff /\ Terc4Off /\ PipeOff /\ AwOff

BchCalculate ==
    /\ pc = "bch_call"
    /\ bch_ecc' = calculate_bch_ecc(hb[1], hb[2], hb[3])
    /\ pc' = "bch_done"
    /\ UNCHANGED <<hb, analyzerVars, scanVars, islandVars, headerVars, terc4Vars,
                   pipeVars, awVars>>

SpecBch == BchInit /\ [][BchCalculate]_vars

(***************************************************************************)
(* decode_packet_header and decode_ecc run on test vectors: four header    *)
(* samples that carry the header hb and four ECC samples that carry a      *)
(* checksum byte, two bits per sample and channel with the low bits in the *)
(* first sample, then cut short or with one code replaced.                 *)
(***************************************************************************)
Sample(i, active, r, g, b) ==
    [index |-> i, time |-> i, h_count |-> None, preamble_active |-> active,
     red |-> r, green |-> g, blue |-> b]

\* The code of the symbol whose low two bits are bits 2i+1 .. 2i of byte and
\* whose high two bits are hi.
CarrierCode(byte, hi, i) == TERC4_TABLE[hi * 4 + ((byte \div Pow2(2 * i)) % 4)]

HeaderVector(h, hi) ==
    [i \in 1..4 |-> Sample(i - 1, FALSE, CarrierCode(h[1], hi, i - 1),
                           CarrierCode(h[2], hi, i - 1), CarrierCode(h[3], hi, i - 1))]

EccVector(byte, hi) ==
    [i \in 1..4 |-> Sample(i + 3, FALSE, CarrierCode(byte, hi, i - 1),
                           TERC4_TABLE[0], TERC4_TABLE[0])]

\* A 10-bit value that is no TERC4 code.
INVALID_CODE == PREAMBLE_PATTERN.red

\* The vector, its prefixes, and the vector with one channel value of one
\* sample replaced by None or by INVALID_CODE.
Variants(vector, channels) ==
    {Slice(vector, 0, n) : n \in 0..4}
    \cup {[vector EXCEPT ![i][c] = bad] :
            i \in 1..4, c \in channels, bad \in {None, INVALID_CODE}}

TestHeaders == ((0..MaxLowByte) \cup {10, 11, 13, 130, 255}) \X {0, 165} \X {0, 60, 255}

HeaderInit ==
    /\ pc = "header_call"
    /\ hb \in TestHeaders
    /\ \E hi \in {0, 3} :
          LET good == calculate_bch_ecc(hb[1], hb[2], hb[3])
          IN  \/ /\ header_samples \in Variants(HeaderVector(hb, hi), {"red", "green", "blue"})
                 /\ ecc_samples = EccVector(good, hi)
              \/ /\ header_samples = HeaderVector(hb, hi)
                 /\ \E byte \in {good, BitXor(good, 1), BitXor(good, 192)} :
                       ecc_samples \in Variants(EccVector(byte, hi), {"red"})
    /\ header_info = <<>>
    /\ ecc_info = <<>>
    /\ bch_ecc = None
    /\ AnalyzerOff /\ ScanOff /\ IslandOff /\ Terc4Off /\ PipeOff /\ AwOff

\* Lines 424-425.
HeaderDecode ==
    /\ pc = "header_call"
    /\ header_info' = <<decode_packet_header(header_samples)>>
    /\ ecc_info' = <<decode_ecc(ecc_samples, decode_packet_header(header_samples))>>
    /\ pc' = "header_done"
    /\ UNCHANGED <<header_samples, ecc_samples, analyzerVars, scanVars, islandVars,
                   bchVars, terc4Vars, pipeVars, awVars>>

SpecHeader == HeaderInit /\ [][HeaderDecode]_vars

(***************************************************************************)
(* Properties of decode_terc4_symbol.                                      *)
(***************************************************************************)
TERC4_VALUES == {TERC4_TABLE[s] : s \in 0..15}

\* C7: TERC4_TABLE and TERC4_DECODE are exact inverses.  Decoding the code of
\* a symbol returns that symbol, the 16 codes are pairwise distinct, encoding
\* the decoded symbol of a code returns that code, and every other 10-bit
\* value and the unknown input decode to None.
C7_Terc4Bijection ==
    pc = "terc4_done" =>
        /\ symbol # None => decoded = symbol
        /\ Cardinality(TERC4_VALUES) = 16
        /\ value \in TERC4_VALUES => decoded \in 0..15 /\ TERC4_TABLE[decoded] = value
        /\ value \notin TERC4_VALUES => decoded = None
        /\ value = None => decoded = None

\* The guard-band code decoded to the symbol 0x8 it stands for.
C7_Witness ==
    /\ pc = "terc4_done"
    /\ symbol = 8
    /\ value = GUARD_PATTERN.red
    /\ decoded = 8

(***************************************************************************)
(* Properties of calculate_bch_ecc.                                        *)
(***************************************************************************)
\* The generator x^7+x^3+x^2+1 with its x^7 term.
poly == 141

\* Long division over GF(2): v with its bits k .. 7 cleared by subtracting
\* shifted copies of the generator.
RECURSIVE PolyRemainder(_, _)
PolyRemainder(v, k) ==
    IF k < 7 THEN v
    ELSE IF (v \div Pow2(k)) % 2 = 1
         THEN PolyRemainder(BitXor(v, poly * Pow2(k - 7)), k - 1)
         ELSE PolyRemainder(v, k - 1)

HeaderValue(h) == h[1] * 65536 + h[2] * 256 + h[3]

\* C5: calculate_bch_ecc returns the remainder over GF(2) of h(x) * x^7
\* divided by x^7+x^3+x^2+1, where h = hb0<<16 | hb1<<8 | hb2; the result is
\* in 0..127, and the function of analyze_waveform.py returns the same value.
C5_BchIsPolynomialRemainder ==
    pc = "bch_done" =>
        /\ bch_ecc = PolyRemainder(HeaderValue(hb) * 128, 30)
        /\ bch_ecc \in 0..127
        /\ calculate_bch_ecc_aw(hb[1], hb[2], hb[3]) = bch_ecc

\* The checksum 0x67 of the Audio Sample Packet header 02 00 00.
C5_Witness ==
    /\ pc = "bch_done"
    /\ hb = <<2, 0, 0>>
    /\ bch_ecc = 103

(***************************************************************************)
(* Properties of decode_packet_header and decode_ecc.                      *)
(***************************************************************************)
\* The four samples hold valid TERC4 codes on the channel, and the low two
\* bits of their symbols are the bit pairs of byte, lowest pair first.
Carries(smps, channel, byte) ==
    /\ Len(smps) = 4
    /\ \A i \in 1..4 :
          \E s \in 0..15 :
             /\ smps[i][channel] = TERC4_TABLE[s]
             /\ s % 4 = (byte \div Pow2(2 * (i - 1))) % 4

CarriesHeaderAndChecksum ==
    /\ Carries(header_samples, "red", hb[1])
    /\ Carries(header_samples, "green", hb[2])
    /\ Carries(header_samples, "blue", hb[3])
    /\ Carries(ecc_samples, "red", calculate_bch_ecc(hb[1], hb[2], hb[3]))

\* C6: when the four header samples carry the header hb in valid TERC4
\* symbols and the four ECC samples carry calculate_bch_ecc(hb) on the red
\* channel, decode_ecc reports received = expected, match = True, and the two
\* bytes differ in zero bits.
C6_ChecksumSelfConsistent ==
    (pc = "header_done" /\ CarriesHeaderAndChecksum) =>
        /\ ecc_info[1].expected = calculate_bch_ecc(hb[1], hb[2], hb[3])
        /\ ecc_info[1].received = ecc_info[1].expected
        /\ ecc_info[1].match = "True"
        /\ PopCount(BitXor(ecc_info[1].received, ecc_info[1].expected)) = 0

\* A Vendor-Specific InfoFrame header with a non-zero checksum, verified.
C6_Witness ==
    /\ pc = "header_done"
    /\ CarriesHeaderAndChecksum
    /\ hb = <<130, 165, 60>>
    /\ header_info[1].hb0 = 130
    /\ ecc_info[1].received # 0
    /\ ecc_info[1].match = "True"

\* The header is complete: four samples, each with a TERC4 code on every channel.
HeaderComplete ==
    /\ Len(header_samples) >= 4
    /\ \A i \in 1..4 : \A c \in {"red", "green", "blue"} :
          header_samples[i][c] \in TERC4_VALUES

\* C9: decode_ecc returns expected = None and match = None exactly when the
\* header is not complete; for a complete header expected is
\* calculate_bch_ecc(hb0, hb1, hb2) of the decoded header bytes and match is
\* the boolean received = expected.
C9_ExpectedOnlyForCompleteHeader ==
    pc = "header_done" =>
        LET h == header_info[1]
            e == ecc_info[1]
        IN  /\ h.complete = HeaderComplete
            /\ e.expected = None <=> ~HeaderComplete
            /\ e.match = "None" <=> ~HeaderComplete
            /\ HeaderComplete =>
                  /\ e.expected = calculate_bch_ecc(h.hb0, h.hb1, h.hb2)
                  /\ e.match = (IF e.received = e.expected THEN "True" ELSE "False")

\* A header cut short, decoded with no expected checksum and no match.
C9_Witness ==
    /\ pc = "header_done"
    /\ Len(header_samples) = 3
    /\ ~header_info[1].complete
    /\ ecc_info[1].expected = None
    /\ ecc_info[1].match = "None"

\* C10: an unknown nibble that contributes to a header byte or to the
\* received ECC byte is propagated as unknown: the byte it belongs to is
\* reported as None, and a received checksum with an unknown nibble is not
\* compared against the expected checksum.
C10_UnknownNibblePropagated ==
    pc = "header_done" =>
        LET h == header_info[1]
            e == ecc_info[1]
        IN  /\ NoneIn(h.nibbles.red) => h.hb0 = None
            /\ NoneIn(h.nibbles.green) => h.hb1 = None
            /\ NoneIn(h.nibbles.blue) => h.hb2 = None
            /\ NoneIn(e.nibbles) => e.received = None /\ e.match = "None"

(***************************************************************************)
(* decode_data_island run on its own.  A sample of a test island is of one *)
(* kind: "P" holds the preamble code with the enable signal set, "G" the   *)
(* guard code, "D" a data code, each with the enable signal clear; the     *)
(* time of a sample is its position in the island.                         *)
(***************************************************************************)
\* Every island of at most MaxIsland samples is enumerated.
MaxIsland == 6
\* A structured island holds up to MaxPreamble enable samples and MaxData
\* data samples.
MaxPreamble == 9
MaxData == 10

KindSample(kind, i) ==
    CASE kind = "P" -> Sample(i, TRUE, PREAMBLE_PATTERN.red, PREAMBLE_PATTERN.green,
                              PREAMBLE_PATTERN.blue)
      [] kind = "G" -> Sample(i, FALSE, GUARD_PATTERN.red, GUARD_PATTERN.green,
                              GUARD_PATTERN.blue)
      [] kind = "D" -> Sample(i, FALSE, TERC4_TABLE[i % 16], TERC4_TABLE[1], TERC4_TABLE[2])

MakeIsland(kinds) == [i \in 1..Len(kinds) |-> KindSample(kinds[i], i - 1)]

Repeat(kind, n) == [i \in 1..n |-> kind]

SmallIslands == UNION {[1..n -> {"P", "G", "D"}] : n \in 0..MaxIsland}

\* Preamble, leading guard, data, trailing guard and trailing data.
StructuredIslands ==
    {Repeat("P", p) \o Repeat("G", a) \o Repeat("D", m) \o Repeat("G", b) \o Repeat("D", t) :
        p \in {0, PREAMBLE_LENGTH, MaxPreamble}, a \in 0..GUARD_LENGTH,
        m \in 0..MaxData, b \in 0..(GUARD_LENGTH + 1), t \in 0..1}

IslandInit ==
    /\ pc = "island_call"
    /\ \E kinds \in SmallIslands \cup StructuredIslands : island = MakeIsland(kinds)
    /\ decoded_island = <<>>
    /\ AnalyzerOff /\ ScanOff /\ HeaderOff /\ BchOff /\ Terc4Off /\ PipeOff /\ AwOff

\* if not samples: return None
DecodeIsland ==
    /\ pc = "island_call"
    /\ decoded_island' = IF island = <<>> THEN <<None>> ELSE <<decode_data_island(island)>>
    /\ pc' = "island_done"
    /\ UNCHANGED <<island, analyzerVars, scanVars, headerVars, bchVars, terc4Vars,
                   pipeVars, awVars>>

SpecIsland == IslandInit /\ [][DecodeIsland]_vars

\* The times of the samples of one segment of the decoded island.
SegmentTimes(t) ==
    {decoded_island[1].segments[t][k].time : k \in 1..Len(decoded_island[1].segments[t])}

\* C4: the six segments preamble, guard_leading, header, ecc, payload and
\* guard_trailing of a decoded island are pairwise disjoint: no sample of the
\* island appears in two segments.
C4_SegmentsDisjoint ==
    (pc = "island_done" /\ island # <<>>) =>
        \A s \in SEGMENT_TYPES : \A t \in SEGMENT_TYPES \ {s} :
            SegmentTimes(s) \cap SegmentTimes(t) = {}

\* An island decoded into six non-empty segments, both guards found by pattern.
C4_Witness ==
    /\ pc = "island_done"
    /\ Len(island) = 22
    /\ \A t \in SEGMENT_TYPES : SegmentTimes(t) # {}
    /\ SegmentTimes("guard_leading") = {8, 9}
    /\ SegmentTimes("guard_trailing") = {20, 21}

(***************************************************************************)
(* reconstruct_buses run on its own.  The columns after the time column    *)
(* are bits of the buses a and b and the single-bit signal s, in any order *)
(* and each at most once; a row holds the time and one literal per column, *)
(* or fewer literals when it is short.                                     *)
(***************************************************************************)
\* A table has up to MaxCols columns after the time column.
MaxCols == 3
\* A table has up to MaxBusRows rows.
MaxBusRows == 2

BusColumns ==
    {"a[0]", "a[1]", "a[2]",
     "b[0]", "s"}

Layouts ==
    UNION {{l \in [1..n -> BusColumns] : \A i \in 1..n : \A j \in 1..n : l[i] = l[j] => i = j} :
            n \in 1..MaxCols}

CELLS == {"0", "1", "X", "X"}

\* The next literal of a cell in the row after it.
NextCell(cell) ==
    CASE cell = "0" -> "1 "
      [] cell = "1" -> "X"
      [] cell = "X" -> "1"
      [] cell = "X" -> " 1 "
      [] cell = "1 " -> "X"
      [] cell = "1" -> " X"
      [] cell = " 1 " -> "x"
      [] cell = "X" -> "0 "
      [] cell = " X" -> ""
      [] OTHER -> "0"

RECURSIVE Later(_, _)
Later(cell, n) == IF n = 0 THEN cell ELSE Later(NextCell(cell), n - 1)

\* The first row is cells; row r holds its literals moved on r - 1 times.
MakeBusData(cells, n) ==
    [r \in 1..n |-> <<ToString(r - 1)>> \o [k \in 1..Len(cells) |-> Later(cells[k], r - 1)]]

BusInit ==
    /\ pc = "bus_call"
    /\ \E l \in Layouts : \E w \in 1..Len(l) : \E cells \in [1..w -> CELLS] :
       \E n \in 1..MaxBusRows :
          /\ headers = <<"time unit: ns">> \o l
          /\ data = MakeBusData(cells, n)
    /\ bus_signals = <<>>
    /\ packet_info = <<>>
    /\ ScanOff /\ IslandOff /\ HeaderOff /\ BchOff /\ Terc4Off /\ PipeOff /\ AwOff

ReconstructBuses ==
    /\ pc = "bus_call"
    /\ bus_signals' = reconstruct_buses(headers, data, bus_signals)
    /\ pc' = "bus_done"
    /\ UNCHANGED <<headers, data, packet_info, scanVars, islandVars, headerVars,
                   bchVars, terc4Vars, pipeVars, awVars>>

SpecBus == BusInit /\ [][ReconstructBuses]_vars

\* The positions in headers of the bit columns of bus that row r holds.
HeldBits(bus, r) ==
    {j \in 1..Len(headers) :
        /\ bus_pattern(headers[j]).match
        /\ bus_pattern(headers[j]).bus_name = bus
        /\ j <= Len(data[r])}

\* The literals of the tables that are 'X', or '1', between whitespace.
HoldsX(cell) == cell \in {"X", " X", "X ", " X ", "X", "X"}

HoldsOne(cell) == cell \in {"1", " 1", "1 ", " 1 ", "1"}

RECURSIVE BitSum(_, _)
BitSum(cols, r) ==
    IF cols = {} THEN 0
    ELSE LET j == CHOOSE c \in cols : TRUE
         IN  (IF HoldsOne(data[r][j]) THEN Pow2(bus_pattern(headers[j]).bit_num) ELSE 0)
             + BitSum(cols \ {j}, r)

\* C8: for every row and every bus, the reconstructed value is None if and
\* only if a bit column of the bus holds 'X' in that row, whatever the other
\* bits are; otherwise it is the sum over the bits that are '1' of
\* 1 << bit position, independent of the order of the columns.
C8_BusUnknownIffX ==
    pc = "bus_done" =>
        /\ DOMAIN bus_signals = BusNames(headers)
        /\ \A bus \in BusNames(headers) :
              /\ Len(bus_signals[bus]) = Len(data)
              /\ \A r \in 1..Len(data) :
                    IF \E j \in HeldBits(bus, r) : HoldsX(data[r][j])
                    THEN bus_signals[bus][r] = None
                    ELSE /\ bus_signals[bus][r] # None
                         /\ bus_signals[bus][r] = BitSum(HeldBits(bus, r), r)

\* Bit 1 in the column before bit 0: bit0 = '1' and bit1 = '0' give 1, and
\* the next row, with bit0 = 'X' and bit1 = '1', gives None.
C8_Witness ==
    /\ pc = "bus_done"
    /\ headers = <<"time unit: ns", "a[1]",
                   "a[0]">>
    /\ data = << <<"0", "0", "1">>, <<"1", "1 ", "X">> >>
    /\ bus_signals["a"] = <<1, None>>

\* The number of samples of the data region of the decoded island: the
\* samples between the leading guard and the trailing guard.
DataRegionLen ==
    Len(decoded_island[1].segments["header"]) + Len(decoded_island[1].segments["ecc"])
    + Len(decoded_island[1].segments["payload"])

\* C11: whenever the data region of an island has fewer than 8 samples,
\* decode_data_island returns a record whose ecc and payload segments are both
\* empty and whose header/ECC result is marked incomplete: the ECC match is
\* unknown, not true or false.
C11_ShortDataRegionIncomplete ==
    (pc = "island_done" /\ island # <<>> /\ DataRegionLen < 8) =>
        /\ decoded_island[1].segments["ecc"] = <<>>
        /\ decoded_island[1].segments["payload"] = <<>>
        /\ decoded_island[1].ecc.expected = None
        /\ decoded_island[1].ecc.match = "None"

(***************************************************************************)
(* The pipeline of main and run_full_analysis: parse_csv,                  *)
(* reconstruct_buses and analyze_data_islands run on one analyzer, then    *)
(* run again.  capture is the file: the columns of its header line and the *)
(* rows after it.  runs counts the runs of the pipeline, the one in        *)
(* progress included, and single keeps the sample table, the buses and the *)
(* packet list as they were when the first run ended.                      *)
(***************************************************************************)
\* A capture holds up to MaxCapRows rows.
MaxCapRows == 3
\* The pipeline runs up to MaxRuns times; main runs it twice by default.
MaxRuns == 2

CaptureHeaders ==
    <<"time unit: ns", " preamble_active",
      "horizontal_counter[0]",
      "tmds_encoded_red[0]",
      "tmds_encoded_green[0]",
      "tmds_encoded_blue[0]">>

\* The rows of a line of the file: the enable signal, one counter bit and
\* the three channel bits, or a line with the time alone.
CaptureRows(t) ==
    {<<t, pre, h, "0", "0", "0">> : pre \in {"0", "1"}, h \in {"0", "1", "X"}} \cup {<<t>>}

Captures ==
    UNION {{c \in [1..n -> CaptureRows("0")] : TRUE} : n \in 0..MaxCapRows}

\* for row in reader: if len(row) > 1: self.data.append(row)
RECURSIVE AppendRows(_, _, _)
AppendRows(table, rows, k) ==
    IF k > Len(rows) THEN table
    ELSE AppendRows(IF Len(rows[k]) > 1 THEN Append(table, rows[k]) ELSE table, rows, k + 1)

PipelineInit ==
    /\ pc = "parse_call"
    /\ \E c \in Captures :
          capture = [headers |-> CaptureHeaders,
                     rows |-> [i \in 1..Len(c) |-> [c[i] EXCEPT ![1] = ToString(i - 1)]]]
    /\ runs = 1
    /\ single = <<>>
    /\ AnalyzerOff /\ ScanOff /\ IslandOff /\ HeaderOff /\ BchOff /\ Terc4Off /\ AwOff

\* parse_csv: the headers are replaced, the rows are appended to self.data.
ParseCsv ==
    /\ pc = "parse_call"
    /\ headers' = [i \in 1..Len(capture.headers) |-> Strip(capture.headers[i])]
    /\ data' = AppendRows(data, capture.rows, 1)
    /\ pc' = "bus_call"
    /\ UNCHANGED <<bus_signals, packet_info, scanVars, islandVars, headerVars, bchVars,
                   terc4Vars, pipeVars, awVars>>

\* The call of analyze_data_islands after reconstruct_buses returned.
AnalyzeCall ==
    /\ pc = "bus_done"
    /\ pc' = "idle"
    /\ UNCHANGED <<analyzerVars, scanVars, islandVars, headerVars, bchVars, terc4Vars,
                   pipeVars, awVars>>

\* run_full_analysis after the three calls of main: the pipeline again.
RunAgain ==
    /\ pc = "done"
    /\ runs < MaxRuns
    /\ runs' = runs + 1
    /\ single' = IF runs = 1
                 THEN <<[data |-> data, bus_signals |-> bus_signals,
                         packet_info |-> packet_info]>>
                 ELSE single
    /\ pc' = "parse_call"
    /\ UNCHANGED <<capture, analyzerVars, scanVars, islandVars, headerVars, bchVars,
                   terc4Vars, awVars>>

PipelineNext == ParseCsv \/ ReconstructBuses \/ AnalyzeCall \/ Next \/ RunAgain

SpecPipeline == PipelineInit /\ [][PipelineNext]_vars

\* C12: after any sequence of pipeline runs on one analyzer the sample
\* table, the buses and the packet list equal what a single run over the
\* capture produces.
C12_RerunEqualsSingleRun ==
    (pc = "done" /\ runs > 1) =>
        /\ data = single[1].data
        /\ bus_signals = single[1].bus_signals
        /\ packet_info = single[1].packet_info

\* C13: decode_packet_header resolves the packet kind from completeness and
\* hb0.  The header is complete iff there are 4 header samples and all 12
\* nibbles decode; a complete header has the type hb0 and the label of hb0
\* in the table of the ten listed types (0x02 is "Audio Sample Packet"), or
\* the Unknown label carrying hb0 for every other byte; a header that is not
\* complete has the type None and the label "Incomplete header".
C13_PacketKindResolved ==
    pc = "header_done" =>
        LET h == header_info[1]
        IN  /\ h.complete = HeaderComplete
            /\ DOMAIN PACKET_TYPES = {0, 1, 2, 3, 4, 5, 6, 7, 10, 13}
            /\ HeaderComplete =>
                  /\ h.hb0 = hb[1]
                  /\ h.packet_type = h.hb0
                  /\ h.hb0 = 2 => h.packet_name = <<"Audio Sample Packet">>
                  /\ h.hb0 \in DOMAIN PACKET_TYPES => h.packet_name = <<PACKET_TYPES[h.hb0]>>
                  /\ h.hb0 \notin DOMAIN PACKET_TYPES => h.packet_name = <<"Unknown", h.hb0>>
            /\ ~HeaderComplete =>
                  /\ h.packet_type = None
                  /\ h.packet_name = <<"Incomplete header">>

\* A complete header of a type outside the table, labelled Unknown with its byte.
C13_Witness ==
    /\ pc = "header_done"
    /\ HeaderComplete
    /\ header_info[1].complete
    /\ header_info[1].hb0 = 11
    /\ header_info[1].packet_type = 11
    /\ header_info[1].packet_name = <<"Unknown", 11>>

\* The positions in headers of the bit columns of bus that row r lacks.
MissingBits(bus, r) ==
    {j \in 1..Len(headers) :
        /\ bus_pattern(headers[j]).match
        /\ bus_pattern(headers[j]).bus_name = bus
        /\ j > Len(data[r])}

\* C14: when a row has fewer columns than the layout, so that a bit column of
\* a bus is missing from that row, the bus is unknown (None) for that row,
\* as it is for an 'X' bit.
C14_ShortRowUnknown ==
    pc = "bus_done" =>
        \A bus \in BusNames(headers) : \A r \in 1..Len(data) :
            MissingBits(bus, r) # {} => bus_signals[bus][r] = None

\* C15: the preamble constant and the guard-band constant are each the same
\* 10-bit value on all three channels and neither is one of the 16 codes of
\* TERC4_TABLE, so a sample that carries a valid TERC4 code on every channel
\* (here the decoded code `value` on all three) is never a guard symbol.
C15_PatternsOutsideTable ==
    /\ PREAMBLE_PATTERN.red = PREAMBLE_PATTERN.green
    /\ PREAMBLE_PATTERN.green = PREAMBLE_PATTERN.blue
    /\ GUARD_PATTERN.red = GUARD_PATTERN.green
    /\ GUARD_PATTERN.green = GUARD_PATTERN.blue
    /\ PREAMBLE_PATTERN.red \in 0..1023 \ TERC4_VALUES
    /\ GUARD_PATTERN.red \in 0..1023 \ TERC4_VALUES
    /\ (pc = "terc4_done" /\ decoded # None) =>
          ~is_guard_symbol([red |-> value, green |-> value, blue |-> value])

(***************************************************************************)
(* Packet payload decoding of analyze_waveform.py.  An island is a list of *)
(* pixels [time, ch0, ch1, ch2] whose channel values are 4-bit symbols or  *)
(* None.  The functions print what they decode; report is what was printed.*)
(*                                                                         *)
(* Python's integers are unbounded.  A PCM sample is kept in two parts,    *)
(* lower = its bits 0..23 and upper = the integer above them (sample >> 24)*)
(* so that the sample is upper * 2^24 + lower: upper is 0 for a 24-bit     *)
(* value and would be -1 for a negative sample of 24 bits.                 *)
(***************************************************************************)
Pixel(t, c0, c1, c2) == [time |-> t, ch0 |-> c0, ch1 |-> c1, ch2 |-> c2]

PixelChannel(pixel, channel) ==
    CASE channel = 0 -> pixel.ch0
      [] channel = 1 -> pixel.ch1
      [] channel = 2 -> pixel.ch2

\* The inner loop of decode_subpacket over the first n pixels of a sub-packet.
RECURSIVE SubpacketByte(_, _, _, _)
SubpacketByte(pixels, start_pixel, channel, n) ==
    IF n = 0 THEN 0
    ELSE LET rest == SubpacketByte(pixels, start_pixel, channel, n - 1)
             v == PixelChannel(pixels[start_pixel + n], channel)
         IN  IF v # None THEN BitOr(rest, ShiftLeft(BitAnd(v, 3), (n - 1) * 2)) ELSE rest

\* A decoder in which two consecutive bytes read the same channel.
decode_subpacket_ChannelPairs(pixels, start_pixel) ==
    IF start_pixel + 4 > Len(pixels) THEN <<>>
    ELSE [k \in 1..7 |-> SubpacketByte(pixels, start_pixel, ((k - 1) \div 2) % 3, 4)]

\* decode_subpacket: 7 bytes, byte_idx 0..6 from channel byte_idx % 3.
decode_subpacket(pixels, start_pixel) ==
    IF start_pixel + 4 > Len(pixels) THEN <<>>
    ELSE [k \in 1..7 |-> SubpacketByte(pixels, start_pixel, (k - 1) % 3, 4)]

\* sample = b0 | (b1 << 8) | (b2 << 16) without the sign step: a 24-bit value.
Pcm24(b0, b1, b2) == BitOr(BitOr(b0, ShiftLeft(b1, 8)), ShiftLeft(b2, 16))

\* A sign extension that subtracts 2^24 from a sample with bit 23 set.
SignExtend_Subtract(sample) ==
    IF BitAnd(sample, 8388608) # 0 THEN [upper |-> -1, lower |-> sample]
    ELSE [upper |-> 0, lower |-> sample]

\* if sample & 0x800000: sample |= 0xFF000000 (bits 24..31 are set).
SignExtend(sample) ==
    IF BitAnd(sample, 8388608) # 0 THEN [upper |-> 255, lower |-> sample]
    ELSE [upper |-> 0, lower |-> sample]

\* (sample >> 8) & 0xFFFF, then minus 65536 when bit 15 is set.
Sample16(sample) ==
    LET v == BitAnd(ShiftRight(sample.lower, 8), 65535)
    IN  IF BitAnd(v, 32768) # 0 THEN v - 65536 ELSE v

AudioSample(sp_bytes) ==
    LET left_sample == SignExtend(Pcm24(sp_bytes[2], sp_bytes[3], sp_bytes[4]))
        right_sample == SignExtend(Pcm24(sp_bytes[5], sp_bytes[6], sp_bytes[7]))
    IN  [sample_present |-> sp_bytes[1],
         left_sample |-> left_sample,
         right_sample |-> right_sample,
         left_16 |-> Sample16(left_sample),
         right_16 |-> Sample16(right_sample)]

\* What decode_audio_sample_packet prints: nothing but the notice for a short
\* packet, else one entry per sub-packet.
decode_audio_sample_packet(pixels) ==
    IF Len(pixels) < 12 THEN [short |-> TRUE, samples |-> <<>>]
    ELSE LET data_start == 8
             num_subpackets == (Len(pixels) - data_start) \div 4
         IN  [short |-> FALSE,
              samples |-> [i \in 1..Min(num_subpackets, 4) |->
                              AudioSample(decode_subpacket(pixels, data_start + (i - 1) * 4))]]

\* A classification in which 6272 is taken for the 48 kHz value.
AcrRate_Swapped(n) ==
    IF n = 6272 THEN "48 kHz"
    ELSE IF n = 6144 THEN "44.1 kHz"
    ELSE IF n = 12288 THEN "96 kHz"
    ELSE IF n > 0 THEN "Custom N value"
    ELSE "None"

\* The label printed for N (lines 904-911); "None" when nothing is printed.
AcrRate(n) ==
    IF n = 6144 THEN "48 kHz"
    ELSE IF n = 6272 THEN "44.1 kHz"
    ELSE IF n = 12288 THEN "96 kHz"
    ELSE IF n > 0 THEN "Custom N value"
    ELSE "None"

\* value = bytes[0] | (bytes[1] << 8) | ((bytes[2] & 0x0F) << 16)
Acr20(bytes) ==
    BitOr(BitOr(bytes[1], ShiftLeft(bytes[2], 8)), ShiftLeft(BitAnd(bytes[3], 15), 16))

\* What decode_acr_packet prints.
decode_acr_packet(pixels) ==
    IF Len(pixels) < 16 THEN [short |-> TRUE, cts |-> None, n |-> None, rate |-> "None"]
    ELSE LET data_start == 8
             n == Acr20(decode_subpacket(pixels, data_start + 4))
         IN  [short |-> FALSE,
              cts |-> Acr20(decode_subpacket(pixels, data_start)),
              n |-> n,
              rate |-> AcrRate(n)]

(***************************************************************************)
(* decode_audio_sample_packet run on its own.  A test island holds 8       *)
(* header and ECC pixels and then sub-packets of 4 pixels; a sub-packet    *)
(* carries one byte per channel, two bits per pixel from the low bits up.  *)
(***************************************************************************)
\* The pixels of a sub-packet that carries the bytes c[1], c[2], c[3] on the
\* channels 0, 1, 2, with the upper two bits of every symbol set to hi.
SubpacketPixels(c, hi) ==
    [q \in 1..4 |->
        Pixel(0, hi * 4 + ((c[1] \div Pow2(2 * (q - 1))) % 4),
                 hi * 4 + ((c[2] \div Pow2(2 * (q - 1))) % 4),
                 hi * 4 + ((c[3] \div Pow2(2 * (q - 1))) % 4))]

RECURSIVE Concat(_)
Concat(seqs) == IF seqs = <<>> THEN <<>> ELSE Head(seqs) \o Concat(Tail(seqs))

\* The island of the sub-packets subs cut to len pixels, times 0, 1, ...
PacketIsland(subs, hi, len) ==
    LET all == [q \in 1..8 |-> Pixel(0, 0, 0, 0)]
               \o Concat([k \in 1..Len(subs) |-> SubpacketPixels(subs[k], hi)])
    IN  [q \in 1..Min(len, Len(all)) |-> [all[q] EXCEPT !.time = q - 1]]

AudioBytes == {0, 1, 127, 128, 255}

AudioInit ==
    /\ pc = "audio_call"
    /\ \E c \in AudioBytes \X AudioBytes \X AudioBytes : \E hi \in {0, 3} :
       \E len \in {11, 12, 15, 16, 28} : \E unknown \in BOOLEAN :
          LET isl == PacketIsland(<<c, <<c[2], c[3], c[1]>>, c, c, c>>, hi, len)
          IN  island_data = IF unknown /\ len >= 12
                            THEN [isl EXCEPT ![12].ch0 = None]
                            ELSE isl
    /\ data_islands = <<>>
    /\ report = <<>>
    /\ AnalyzerOff /\ ScanOff /\ IslandOff /\ HeaderOff /\ BchOff /\ Terc4Off /\ PipeOff

DecodeAudio ==
    /\ pc = "audio_call"
    /\ report' = <<decode_audio_sample_packet(island_data)>>
    /\ pc' = "audio_done"
    /\ UNCHANGED <<data_islands, island_data, analyzerVars, scanVars, islandVars,
                   headerVars, bchVars, terc4Vars, pipeVars>>

SpecAudio == AudioInit /\ [][DecodeAudio]_vars

\* A sample of 24 bits is sign-extended with bit 23 as sign: its integer is
\* lower - 2^24 when bit 23 is set and lower when it is clear.
SignExtended(sample) ==
    IF sample.lower >= 8388608 THEN sample.upper = -1 ELSE sample.upper = 0

\* C16: in decode_audio_sample_packet a 24-bit PCM sample is sign-extended
\* with bit 23 as sign: with bit 23 set it decodes to a negative integer
\* (bytes 0x00, 0x00, 0x80 give -8388608), with bit 23 clear to its
\* non-negative value.
C16_PcmSignExtended ==
    (pc = "audio_done" /\ ~report[1].short) =>
        \A i \in 1..Len(report[1].samples) :
            /\ report[1].samples[i].left_sample.lower \in 0..16777215
            /\ report[1].samples[i].right_sample.lower \in 0..16777215
            /\ SignExtended(report[1].samples[i].left_sample)
            /\ SignExtended(report[1].samples[i].right_sample)

(***************************************************************************)
(* decode_acr_packet run on its own: the first sub-packet carries CTS, the *)
(* second the bytes of N.                                                  *)
(***************************************************************************)
\* Every N in 0..MaxN is tried, besides the well-known values, their
\* neighbours and the largest values.
MaxN == 40

AcrValues ==
    (0..MaxN) \cup {5000, 6143, 6144, 6145, 6271, 6272, 6273, 12287, 12288, 12289,
                    65535, 65536, 1048575}

AcrInit ==
    /\ pc = "acr_call"
    /\ \E n \in AcrValues : \E top \in {0, 15} : \E hi \in {0, 3} :
       \E len \in {15, 16, 20} :
          island_data =
              PacketIsland(<< <<1, 2, 3>>,
                              <<n % 256, (n \div 256) % 256, top * 16 + (n \div 65536)>>,
                              <<0, 0, 0>> >>, hi, len)
    /\ data_islands = <<>>
    /\ report = <<>>
    /\ AnalyzerOff /\ ScanOff /\ IslandOff /\ HeaderOff /\ BchOff /\ Terc4Off /\ PipeOff

DecodeAcr ==
    /\ pc = "acr_call"
    /\ report' = <<decode_acr_packet(island_data)>>
    /\ pc' = "acr_done"
    /\ UNCHANGED <<data_islands, island_data, analyzerVars, scanVars, islandVars,
                   headerVars, bchVars, terc4Vars, pipeVars>>

SpecAcr == AcrInit /\ [][DecodeAcr]_vars

\* The byte that the pixels first .. first + 3 carry on a channel, by
\* arithmetic on the low two bits of each symbol.
CarriedByte(first, channel) ==
    LET two(q) == PixelChannel(island_data[first + q], channel) % 4
    IN  two(0) + 4 * two(1) + 16 * two(2) + 64 * two(3)

\* N as the pixels 13 .. 16 of the island carry it.
CarriedN == CarriedByte(13, 0) + 256 * CarriedByte(13, 1) + 65536 * (CarriedByte(13, 2) % 16)

\* C17: in decode_acr_packet N = byte0 | byte1 << 8 | (byte2 & 0xF) << 16 of
\* the second sub-packet is a 20-bit value, labelled 48 kHz iff N = 6144,
\* 44.1 kHz iff N = 6272, 96 kHz iff N = 12288 and custom for every other
\* positive N; every positive N gets exactly one label.
C17_AcrClassification ==
    (pc = "acr_done" /\ ~report[1].short) =>
        LET n == report[1].n
            rate == report[1].rate
        IN  /\ n = CarriedN
            /\ n \in 0..1048575
            /\ rate = "48 kHz" <=> n = 6144
            /\ rate = "44.1 kHz" <=> n = 6272
            /\ rate = "96 kHz" <=> n = 12288
            /\ rate = "Custom N value" <=> (n > 0 /\ n \notin {6144, 6272, 12288})
            /\ n > 0 => rate \in {"48 kHz", "44.1 kHz", "96 kHz", "Custom N value"}

\* N = 5000, with the upper four bits of its third byte set, labelled custom.
C17_Witness ==
    /\ pc = "acr_done"
    /\ ~report[1].short
    /\ CarriedByte(13, 2) = 240
    /\ report[1].n = 5000
    /\ report[1].rate = "Custom N value"

(***************************************************************************)
(* The polynomial diagnostic of analyze_waveform.py.                       *)
(***************************************************************************)
\* One pass over a row of the loop of extract_data_islands (lines 469-488);
\* st is [in_island, island_data, islands, raised, error].  int(row[0]) of
\* line 470 raises ValueError for a time cell that is no integer, and the
\* reads terc4_ch0[idx], terc4_ch1[idx], terc4_ch2[idx] of lines 478-480 raise
\* IndexError for a bus shorter than the table: the loop ends there and the
\* islands stored so far stay in self.data_islands.
ExtractRow(st, row, i, col_idx, ch0, ch1, ch2) ==
    LET time == py_int(row[1])
        val == IF col_idx < Len(row) THEN Strip(row[col_idx + 1]) ELSE "0"
    IN  IF ~time.ok THEN [st EXCEPT !.raised = TRUE, !.error = "ValueError"]
        ELSE IF val = "1"
        THEN IF i > Len(ch0) \/ i > Len(ch1) \/ i > Len(ch2)
             THEN [st EXCEPT !.raised = TRUE, !.error = "IndexError"]
             ELSE [st EXCEPT
                     !.in_island = TRUE,
                     !.island_data = Append(IF st.in_island THEN st.island_data ELSE <<>>,
                                            Pixel(time.value, ch0[i], ch1[i], ch2[i]))]
        ELSE IF val = "0" /\ st.in_island
        THEN [st EXCEPT !.in_island = FALSE, !.island_data = <<>>,
                        !.islands = Append(st.islands, st.island_data)]
        ELSE st

RECURSIVE ExtractLoop(_, _, _, _, _, _)
ExtractLoop(rows, n, col_idx, ch0, ch1, ch2) ==
    IF n = 0
    THEN [in_island |-> FALSE, island_data |-> <<>>, islands |-> <<>>,
          raised |-> FALSE, error |-> ""]
    ELSE LET st == ExtractLoop(rows, n - 1, col_idx, ch0, ch1, ch2)
         IN  IF st.raised THEN st
             ELSE ExtractRow(st, rows[n], n, col_idx, ch0, ch1, ch2)

\* The name of a TERC4 bus: the plain name if that bus exists, else the debug name.
Terc4Name(buses, k) ==
    LET plain == CASE k = 0 -> "u_hdmi/terc4_ch0" [] k = 1 -> "u_hdmi/terc4_ch1"
                   [] k = 2 -> "u_hdmi/terc4_ch2"
        debug == CASE k = 0 -> "u_hdmi/debug_terc4_ch0" [] k = 1 -> "u_hdmi/debug_terc4_ch1"
                   [] k = 2 -> "u_hdmi/debug_terc4_ch2"
    IN  IF plain \in DOMAIN buses THEN plain ELSE debug

\* extract_data_islands (lines 442-490): the value of self.data_islands when
\* the call ends, old before it, whether the call ends in an exception and
\* which.  Without the enable column or the ch0 bus the call returns and
\* leaves data_islands alone (lines 448-459).  The reads of the three buses at
\* lines 461-463 raise KeyError when the ch1 or the ch2 bus is missing, before
\* data_islands is cleared at line 465.
extract_data_islands(hdrs, rows, buses, old) ==
    LET first == get_signal_column(hdrs, "u_hdmi/data_island_enable")
        col_idx == IF first < 0 THEN get_signal_column(hdrs, "debug_data_island") ELSE first
    IN  IF col_idx < 0 THEN [data_islands |-> old, raised |-> FALSE, error |-> ""]
        ELSE IF Terc4Name(buses, 0) \notin DOMAIN buses
        THEN [data_islands |-> old, raised |-> FALSE, error |-> ""]
        ELSE IF Terc4Name(buses, 1) \notin DOMAIN buses
                \/ Terc4Name(buses, 2) \notin DOMAIN buses
        THEN [data_islands |-> old, raised |-> TRUE, error |-> "KeyError"]
        ELSE LET st == ExtractLoop(rows, Len(rows), col_idx, buses[Terc4Name(buses, 0)],
                                   buses[Terc4Name(buses, 1)], buses[Terc4Name(buses, 2)])
             IN  [data_islands |-> st.islands, raised |-> st.raised, error |-> st.error]

\* decode_packet_header of analyze_waveform.py for an island of 8 pixels or more.
decode_packet_header_aw(pixels) ==
    IF Len(pixels) < 8
    THEN [packet_type |-> None, packet_name |-> <<"Incomplete header">>,
          hb0 |-> 0, hb1 |-> 0, hb2 |-> 0, ecc_received |-> 0]
    ELSE LET hb0 == SubpacketByte(pixels, 0, 0, 4)
         IN  [packet_type |-> hb0,
              packet_name |-> IF hb0 \in DOMAIN PACKET_TYPES THEN <<PACKET_TYPES[hb0]>>
                              ELSE <<"Unknown", hb0>>,
              hb0 |-> hb0,
              hb1 |-> SubpacketByte(pixels, 0, 1, 4),
              hb2 |-> SubpacketByte(pixels, 0, 2, 4),
              ecc_received |-> SubpacketByte(pixels, 4, 0, 4)]

\* One pass of the loop of test_bch_polynomial: the taps are the bits
\* 0 .. degree - 2 of poly.
TestBchStep(lfsr, bit, taps) ==
    LET degree == 7
        feedback == BitXor(bit, BitAnd(ShiftRight(lfsr, degree - 1), 1))
        shifted == BitAnd(ShiftLeft(lfsr, 1), ShiftLeft(1, degree) - 1)
    IN  IF feedback # 0 THEN BitXor(shifted, taps) ELSE shifted

RECURSIVE TestBchLoop(_, _, _)
TestBchLoop(word, i, taps) ==
    IF i > 23 THEN 0
    ELSE LET lfsr == TestBchLoop(word, i + 1, taps)
             bit == BitAnd(ShiftRight(word, i), 1)
         IN  IF lfsr = 0 THEN TestBchStep(0, bit, taps) ELSE TestBchStep(lfsr, bit, taps)

\* The generic encoder with taps from the polynomial's bits 0 to 2 only.
test_bch_polynomial_LowTaps(hb0, hb1, hb2, polynomial) ==
    LET word == BitOr(BitOr(ShiftLeft(hb0, 16), ShiftLeft(hb1, 8)), hb2)
    IN  BitAnd(TestBchLoop(word, 0, BitAnd(polynomial, 7)), 127)

test_bch_polynomial(hb0, hb1, hb2, polynomial) ==
    LET word == BitOr(BitOr(ShiftLeft(hb0, 16), ShiftLeft(hb1, 8)), hb2)
    IN  BitAnd(TestBchLoop(word, 0, BitAnd(polynomial, 63)), 127)

\* The generator polynomials of the diagnostic, in its order.
POLYNOMIALS ==
    << \b10000011, \b10001101, \b11000001, \b11110111, \b11001011,
       \b10011101, \b10111111, \b10001001, \b10010001, \b10101101 >>

\* The first island of 18 pixels or more, from its pixel 10 on; <<>> if none.
TestPacket(islands) ==
    LET long == {k \in 1..Len(islands) : Len(islands[k]) >= 18}
    IN  IF long = {} THEN <<>> ELSE SliceFrom(islands[SetMin(long)], 10)

\* What the diagnostic prints for the islands: the decoded header of the
\* test packet and the first polynomial whose checksum equals the received
\* one (None if there is none).
PolynomialReport(islands) ==
    IF islands = <<>> THEN [packet |-> <<>>, best |-> None]
    ELSE IF TestPacket(islands) = <<>> THEN [packet |-> <<>>, best |-> None]
    ELSE LET h == decode_packet_header_aw(TestPacket(islands))
             perfect == {k \in 1..Len(POLYNOMIALS) :
                            test_bch_polynomial(h.hb0, h.hb1, h.hb2, POLYNOMIALS[k])
                                = h.ecc_received}
         IN  [packet |-> <<h>>,
              best |-> IF perfect = {} THEN None ELSE POLYNOMIALS[SetMin(perfect)]]

\* Every table of at most MaxDiagRows rows is enumerated.
MaxDiagRows == 3
\* A long table holds up to LongDiagRows rows.
LongDiagRows == 22

\* A table whose enable column is en: the rows and the three TERC4 buses,
\* which carry chans[k][i] in row i.
\* A capture table: the time cell of row i holds the index i - 1, between
\* whitespace in every second row, except in row `bad` (0 for none), whose
\* time cell holds the index after the separator 0x1C, which int rejects.
DiagTable(en, chans, bad) ==
    [rows |-> [i \in 1..Len(en) |->
                  <<IF i = bad THEN "" \o ToString(i - 1)
                    ELSE IF i % 2 = 0 THEN "" \o ToString(i - 1) \o " "
                    ELSE ToString(i - 1),
                    en[i]>>],
     ch |-> chans]

SmallDiagTables ==
    UNION {{DiagTable(en, [k \in 0..2 |-> [i \in 1..Len(en) |-> (i + k) % 16]], bad) :
               bad \in 0..Len(en)} :
           en \in UNION {[1..n -> {"0", "1", "X", "1"}] : n \in 0..MaxDiagRows}}

\* Long tables: the enable is high for `high` rows from row `rise` on; the
\* island carries, from its pixel 10 on, the header h and a checksum byte.
LongDiagTables ==
    {DiagTable([i \in 1..n |-> IF i - 1 >= rise /\ i - 1 < rise + high THEN "1" ELSE "0"],
               [k \in 0..2 |->
                   [i \in 1..n |->
                       LET q == i - 1 - rise - 10
                       IN  IF q \in 0..3 THEN (h[k + 1] \div Pow2(2 * q)) % 4
                           ELSE IF q \in 4..7 /\ k = 0 THEN (e \div Pow2(2 * (q - 4))) % 4
                           ELSE 0]], bad) :
        n \in (LongDiagRows - 1)..LongDiagRows, rise \in 0..1, high \in 17..19,
        bad \in {0, LongDiagRows - 1},
        h \in {<<2, 0, 0>>, <<130, 165, 60>>},
        e \in {0} \cup {test_bch_polynomial(2, 0, 0, POLYNOMIALS[k]) : k \in 1..3}}

\* The analyzer before extract_data_islands is called alone, as main does at
\* line 1080, or before the diagnostic is: the three TERC4 buses of a table
\* under their plain or their debug names.  For a table of one row or none
\* one of the buses may be missing, or all three may be empty, as they are
\* when parse_csv appended the rows after reconstruct_buses built the buses.
DiagInit ==
    /\ pc \in {"extract_call", "diag_call"}
    /\ \E t \in SmallDiagTables \cup LongDiagTables : \E debug \in BOOLEAN :
       \E missing \in IF Len(t.rows) <= 1 THEN {{}, {0}, {1}, {2}} ELSE {{}} :
       \E short \in IF Len(t.rows) = 1 THEN BOOLEAN ELSE {FALSE} :
          /\ data = t.rows
          /\ bus_signals =
                [b \in {(IF debug
                         THEN <<"u_hdmi/debug_terc4_ch0", "u_hdmi/debug_terc4_ch1",
                                "u_hdmi/debug_terc4_ch2">>
                         ELSE <<"u_hdmi/terc4_ch0", "u_hdmi/terc4_ch1",
                                "u_hdmi/terc4_ch2">>)[k + 1] : k \in (0..2) \ missing} |->
                    IF short THEN <<>>
                    ELSE t.ch[CHOOSE k \in 0..2 : b = Terc4Name([x \in {b} |-> <<>>], k)]]
          /\ headers = <<"time unit: ns",
                         IF debug THEN "debug_data_island"
                         ELSE "u_hdmi/data_island_enable">>
    /\ data_islands \in {<<>>, << <<Pixel(0, 1, 2, 3)>> >>}
    /\ island_data = <<>>
    /\ report = <<>>
    /\ packet_info = <<>>
    /\ ScanOff /\ IslandOff /\ HeaderOff /\ BchOff /\ Terc4Off /\ PipeOff

\* extract_data_islands called alone (main, line 1080).
ExtractDataIslands ==
    /\ pc = "extract_call"
    /\ LET run == extract_data_islands(headers, data, bus_signals, data_islands)
       IN  /\ data_islands' = run.data_islands
           /\ pc' = IF run.raised THEN "extract_raised" ELSE "extract_done"
    /\ UNCHANGED <<report, island_data, analyzerVars, scanVars, islandVars, headerVars,
                   bchVars, terc4Vars, pipeVars>>

\* test_bch_polynomials_against_waveform, called first or, as main does at
\* line 1081, after extract_data_islands: the islands are extracted when
\* there are none (lines 557-558), and an exception of the extraction leaves
\* the diagnostic.
TestPolynomials ==
    /\ pc \in {"diag_call", "extract_done"}
    /\ LET run == extract_data_islands(headers, data, bus_signals, data_islands)
       IN  /\ data_islands' = IF data_islands = <<>> THEN run.data_islands ELSE data_islands
           /\ IF data_islands = <<>> /\ run.raised
              THEN report' = report /\ pc' = "diag_raised"
              ELSE report' = <<PolynomialReport(data_islands')>> /\ pc' = "diag_done"
    /\ UNCHANGED <<island_data, analyzerVars, scanVars, islandVars, headerVars, bchVars,
                   terc4Vars, pipeVars>>

SpecDiag == DiagInit /\ [][ExtractDataIslands \/ TestPolynomials]_vars

\* C18: running the polynomial diagnostic leaves the analyzer's state
\* unchanged: the sample table, bus_signals and data_islands are the same
\* before and after, whatever their values when it is called.
C18_DiagnosticLeavesState ==
    [][(pc \in {"diag_call", "extract_done"} /\ pc' \in {"diag_done", "diag_raised"}) =>
          /\ data' = data
          /\ bus_signals' = bus_signals
          /\ data_islands' = data_islands]_vars

\* The enable signal at sample i, as both loops read it.
EnableAt(i) == PreambleActive(data[i + 1])

\* C19: a burst starts at sample idx only on a rising edge of the enable
\* signal: the signal is 1 at idx and idx is the first sample or the signal is
\* 0 at idx - 1. This includes the sample at which the scan resumes after a
\* burst.
C19_BurstOnRisingEdge ==
    [][pc = "scan" /\ pc' = "collect" =>
          /\ EnableAt(idx)
          /\ (idx = 0 \/ ~EnableAt(idx - 1))]_vars

\* Sample k of the burst is a falling edge of the enable signal.
FallingAt(burst, k) ==
    k >= 2 /\ burst[k - 1].preamble_active /\ ~burst[k].preamble_active

\* C20: a falling edge of the enable signal ends the burst being collected:
\* no sample after a falling edge is in the burst, neither while it is
\* collected nor in the island that is recorded.
C20_FallingEdgeEndsBurst ==
    \A k \in 1..Len(samples) : FallingAt(samples, k) => Len(samples) <= k

\* C21: when collect_data_island returns, for whatever cause, the outer scan
\* resumes at the sample right after the last sample of the burst (at the end
\* of the table when the burst reached it), so no sample is skipped.
C21_ResumeAfterLastSample ==
    [][(pc \in {"collect", "wrap_break"} /\ pc' = "scan") =>
          (samples # <<>> /\ Min(Last(samples).index + 1, Len(data)) = idx')]_vars

\* Sample i of the island (counted from 0) equals the guard pattern on red,
\* green and blue.
GuardAt(i) ==
    /\ island[i + 1].red = GUARD_PATTERN.red
    /\ island[i + 1].green = GUARD_PATTERN.green
    /\ island[i + 1].blue = GUARD_PATTERN.blue

\* The start indices, at or after p, of the windows of 2 guard samples that
\* lie inside the island.
GuardPairs(p) == {i \in p..(Len(island) - 2) : GuardAt(i) /\ GuardAt(i + 1)}

\* The window the leading guard is to be: the first guard pair, or else the
\* samples right after the preamble.
LeadingWindow(p) ==
    IF GuardPairs(p) # {}
    THEN [first |-> SetMin(GuardPairs(p)), end |-> SetMin(GuardPairs(p)) + 2]
    ELSE [first |-> p, end |-> Min(p + 2, Len(island))]

\* C22: the leading guard of a decoded island is the first window of 2 guard
\* samples at or after the preamble end, or the at most 2 samples right after
\* the preamble when the island holds no such window; the index
\* locate_leading_guard returns is the end of that window, where the header
\* starts; the guard is empty when the preamble fills the island.
C22_LeadingGuardWindow ==
    (pc = "island_done" /\ island # <<>>) =>
        LET p == Len(decoded_island[1].segments["preamble"])
            w == LeadingWindow(p)
            r == locate_leading_guard(island, p)
        IN  /\ SegmentTimes("guard_leading") = w.first..(w.end - 1)
            /\ Len(decoded_island[1].segments["guard_leading"]) = w.end - w.first
            /\ r.guard = Slice(island, w.first, w.end)
            /\ r.index = w.end
            /\ (w.end < Len(island) => w.end \in SegmentTimes("header"))
            /\ (p = Len(island) => decoded_island[1].segments["guard_leading"] = <<>>)

\* A decoded island with two guard windows after its preamble, the first of
\* them with data before it; the leading guard is the first.
C22_Witness ==
    /\ pc = "island_done"
    /\ island # <<>>
    /\ Len(decoded_island[1].segments["preamble"]) = 2
    /\ Len(island) = 6
    /\ GuardPairs(2) = {3, 4}
    /\ SegmentTimes("guard_leading") = {3, 4}

\* The sample times of segment t of the decoded island, in order.
SegmentTimeSeq(t) ==
    [k \in 1..Len(decoded_island[1].segments[t]) |-> decoded_island[1].segments[t][k].time]

\* The index at which the leading guard of the decoded island ends.
LeadingEnd ==
    IF decoded_island[1].segments["guard_leading"] = <<>>
    THEN Len(decoded_island[1].segments["preamble"])
    ELSE Last(SegmentTimeSeq("guard_leading")) + 1

\* The index at which the trailing guard of the decoded island starts: the
\* island's end when no trailing guard is kept.
TrailingStart ==
    IF decoded_island[1].segments["guard_trailing"] = <<>>
    THEN Len(island)
    ELSE SegmentTimeSeq("guard_trailing")[1]

\* The indices from..(to - 1) in order.
IndexRun(from, to) == [k \in 1..(to - from) |-> from + k - 1]

\* C23: the data region of a decoded island is the samples from the end of the
\* leading guard to the start of the trailing guard (to the island's end when
\* no trailing guard is kept); header is its first 4 samples, ecc its next 4
\* and payload the rest, so header, ecc and payload in this order are the data
\* region.
C23_DataRegionSplit ==
    (pc = "island_done" /\ island # <<>>) =>
        LET region == IndexRun(LeadingEnd, TrailingStart)
        IN  /\ LeadingEnd <= TrailingStart
            /\ SegmentTimeSeq("header") = Slice(region, 0, 4)
            /\ SegmentTimeSeq("ecc") = Slice(region, 4, 8)
            /\ SegmentTimeSeq("payload") = SliceFrom(region, 8)
            /\ SegmentTimeSeq("header") \o SegmentTimeSeq("ecc") \o SegmentTimeSeq("payload")
                  = region

\* A decoded island whose data region of 10 samples lies between two guards:
\* 4 header samples, 4 ecc samples and 2 payload samples.
C23_Witness ==
    /\ pc = "island_done"
    /\ island # <<>>
    /\ LeadingEnd = 10
    /\ TrailingStart = 20
    /\ SegmentTimeSeq("header") = <<10, 11, 12, 13>>
    /\ SegmentTimeSeq("ecc") = <<14, 15, 16, 17>>
    /\ SegmentTimeSeq("payload") = <<18, 19>>

(***************************************************************************)
(* The generic encoder next to the primary encoders.                       *)
(***************************************************************************)
PolyInit ==
    /\ pc = "poly_call"
    /\ hb \in SampleBytes \X SampleBytes \X SampleBytes
    /\ bch_ecc = None
    /\ report = <<>>
    /\ data_islands = <<>> /\ island_data = <<>>
    /\ AnalyzerOff /\ ScanOff /\ IslandOff /\ HeaderOff /\ Terc4Off /\ PipeOff

\* test_bch_polynomial for one polynomial of the diagnostic's list, and the
\* calculate_bch_ecc of both files, on the same header.
TestPolynomial ==
    /\ pc = "poly_call"
    /\ \E k \in 1..Len(POLYNOMIALS) :
          report' = <<[polynomial |-> POLYNOMIALS[k],
                       ecc |-> test_bch_polynomial(hb[1], hb[2], hb[3], POLYNOMIALS[k]),
                       primary |-> calculate_bch_ecc_aw(hb[1], hb[2], hb[3])]>>
    /\ bch_ecc' = calculate_bch_ecc(hb[1], hb[2], hb[3])
    /\ pc' = "poly_done"
    /\ UNCHANGED <<hb, data_islands, island_data, analyzerVars, scanVars, islandVars,
                   headerVars, terc4Vars, pipeVars>>

SpecPoly == PolyInit /\ [][TestPolynomial]_vars

\* C24: with the polynomial 0x8D and degree 7 the generic encoder returns what
\* the primary encoder returns, for every header; the primary encoders of the
\* two files return the same value.
C24_GenericEqualsPrimary ==
    (pc = "poly_done" /\ report[1].polynomial = poly) =>
        /\ report[1].ecc = report[1].primary
        /\ report[1].ecc = bch_ecc
        /\ report[1].primary = bch_ecc

\* The three encoders on the header FF FF FF.
C24_Witness ==
    /\ pc = "poly_done"
    /\ report[1].polynomial = poly
    /\ hb = <<255, 255, 255>>
    /\ report[1].ecc = bch_ecc
    /\ bch_ecc # 0

\* Long division over GF(2) by the generator g of degree 7: v with its bits
\* k .. 7 cleared.
RECURSIVE RemainderBy(_, _, _)
RemainderBy(v, k, g) ==
    IF k < 7 THEN v
    ELSE IF (v \div Pow2(k)) % 2 = 1
         THEN RemainderBy(BitXor(v, g * Pow2(k - 7)), k - 1, g)
         ELSE RemainderBy(v, k - 1, g)

\* C25: test_bch_polynomial applies a tap for every term of the polynomial
\* but the leading one (bits 0 to 6 for degree 7): its result for a
\* polynomial of the diagnostic's list, x^7+x^6+1 among them, is the remainder
\* of h(x) * x^7 divided by that polynomial.
C25_TapsForEveryTerm ==
    pc = "poly_done" =>
        report[1].ecc = RemainderBy(HeaderValue(hb) * 128, 30, report[1].polynomial)

\* The byte that the pixels first .. first + 3 carry on a channel when the
\* first pixel supplies bits 7:6 and the fourth bits 1:0.
MsbFirstByte(first, channel) ==
    LET two(q) == IF PixelChannel(island_data[first + q], channel) = None THEN 0
                  ELSE PixelChannel(island_data[first + q], channel) % 4
    IN  64 * two(0) + 16 * two(1) + 4 * two(2) + two(3)

\* C26: decode_subpacket assembles a byte MSB-first across the 4 samples of
\* the sub-packet: the first sample supplies bits 7:6 and the fourth bits 1:0.
\* Byte 0 of sub-packet i of an Audio Sample Packet, its sample-present byte,
\* is that byte of channel 0.
C26_SubpacketMsbFirst ==
    (pc = "audio_done" /\ ~report[1].short) =>
        \A i \in 1..Len(report[1].samples) :
            report[1].samples[i].sample_present = MsbFirstByte(9 + (i - 1) * 4, 0)

(***************************************************************************)
(* analyze_terc4_packets (analyze_waveform.py).                            *)
(***************************************************************************)
\* Lines 704-723: header_start is 8 when the first 8 pixels carry one value
\* on ch0, plus 2 when the next two pixels carry 3 on ch0; 0 when the island
\* is too short.  Line 712 formats the common ch0 value of the first 8 pixels
\* with :X, which raises TypeError when that value is None.
HeaderStart(pixels) ==
    LET same == Len(pixels) >= 8 /\ \A i \in 1..8 : pixels[i].ch0 = pixels[1].ch0
        preamble_end == IF same THEN 8 ELSE 0
    IN  IF same /\ pixels[1].ch0 = None
        THEN [raised |-> TRUE, header_start |-> 0]
        ELSE [raised |-> FALSE,
              header_start |->
                  IF preamble_end > 0 /\ Len(pixels) >= preamble_end + 2
                  THEN IF pixels[preamble_end + 1].ch0 = pixels[preamble_end + 2].ch0
                          /\ pixels[preamble_end + 1].ch0 = 3
                       THEN preamble_end + 2
                       ELSE preamble_end
                  ELSE 0]

\* One pass of the loop over self.data_islands (lines 691-764): the header
\* decoded at header_start and what the packet decoders print for the island;
\* nothing of it when the pass ends in the TypeError of line 712.
AnalyzePacket(pixels) ==
    LET start == HeaderStart(pixels)
        header_start == start.header_start
        has_header == ~start.raised /\ header_start + 8 <= Len(pixels)
        h == decode_packet_header_aw(SliceFrom(pixels, header_start))
        packet_type == IF has_header THEN h.packet_type ELSE None
    IN  [raised |-> start.raised,
         header_start |-> header_start,
         packet_type |-> packet_type,
         header |-> IF has_header THEN <<h>> ELSE <<>>,
         ecc_valid |-> IF has_header
                       THEN <<h.ecc_received = calculate_bch_ecc_aw(h.hb0, h.hb1, h.hb2)>>
                       ELSE <<>>,
         audio |-> IF ~start.raised /\ packet_type = 2
                   THEN <<decode_audio_sample_packet(pixels)>> ELSE <<>>,
         acr |-> IF ~start.raised /\ packet_type = 1
                 THEN <<decode_acr_packet(pixels)>> ELSE <<>>]

\* The loop of lines 691-764 over the islands: one record per island analysed
\* before the first island whose pass raises, and whether a pass raised.
analyze_terc4_packets(islands) ==
    LET bad == {k \in 1..Len(islands) : HeaderStart(islands[k]).raised}
        n == IF bad = {} THEN Len(islands) ELSE SetMin(bad) - 1
    IN  [records |-> [k \in 1..n |-> AnalyzePacket(islands[k])],
         raised |-> bad # {}]

\* A test island holds up to MaxSub sub-packets.
MaxSub == 5

\* A test island: `pre` pixels of pv on ch0 and 5 on ch1 and ch2, `guard`
\* pixels of 3, the header t, 1, 2 and the checksum e, then n sub-packets whose
\* bytes on the three channels differ from sub-packet to sub-packet.
TestIsland(pre, pv, guard, t, e, n) ==
    LET all == [q \in 1..pre |-> Pixel(0, pv, 5, 5)]
               \o [q \in 1..guard |-> Pixel(0, 3, 3, 3)]
               \o SubpacketPixels(<<t, 1, 2>>, 0)
               \o SubpacketPixels(<<e, 0, 0>>, 0)
               \o Concat([k \in 1..n |-> SubpacketPixels(<<16 * k + 1, 16 * k + 2, 16 * k + 3>>, 0)])
    IN  [q \in 1..Len(all) |-> [all[q] EXCEPT !.time = q - 1]]

PacketsInit ==
    /\ pc = "packets_call"
    /\ \E pre \in {0, 8} : \E guard \in {0, 2} : \E t \in {1, 2, 4} : \E n \in 0..MaxSub :
       \E good \in BOOLEAN : \E pv \in (IF pre = 8 THEN {5, None} ELSE {5}) :
       \E extracted \in BOOLEAN :
          LET e == IF good THEN calculate_bch_ecc_aw(t, 1, 2) ELSE 0
              isl == TestIsland(pre, pv, guard, t, e, n)
              other == TestIsland(0, 5, 0, 2, 0, 1)
          IN  IF extracted
              THEN \E bad \in BOOLEAN : \E missing \in {{}, {"u_hdmi/terc4_ch2"}} :
                   /\ data_islands = <<>>
                   /\ headers = <<"time unit: ns", "u_hdmi/data_island_enable">>
                   /\ data = [i \in 1..(Len(isl) + 1) |->
                                 <<IF bad /\ i = Len(isl) + 1 THEN "" ELSE ToString(i - 1),
                                   IF i <= Len(isl) THEN "1" ELSE "0">>]
                   /\ bus_signals =
                         [b \in {"u_hdmi/terc4_ch0", "u_hdmi/terc4_ch1", "u_hdmi/terc4_ch2"}
                                   \ missing |->
                             [i \in 1..(Len(isl) + 1) |->
                                 IF i > Len(isl) THEN 0
                                 ELSE IF b = "u_hdmi/terc4_ch0" THEN isl[i].ch0
                                 ELSE IF b = "u_hdmi/terc4_ch1" THEN isl[i].ch1
                                 ELSE isl[i].ch2]]
              ELSE \E two \in 0..2 :
                   /\ data_islands = CASE two = 0 -> <<isl>>
                                       [] two = 1 -> <<isl, other>>
                                       [] two = 2 -> <<other, isl>>
                   /\ headers = <<>> /\ data = <<>> /\ bus_signals = <<>>
    /\ island_data = <<>>
    /\ report = <<>>
    /\ packet_info = <<>>
    /\ ScanOff /\ IslandOff /\ HeaderOff /\ BchOff /\ Terc4Off /\ PipeOff

\* analyze_terc4_packets: the islands are extracted first when there are
\* none (lines 680-681), and an exception of the extraction leaves the call.
AnalyzeTerc4Packets ==
    /\ pc = "packets_call"
    /\ LET run == extract_data_islands(headers, data, bus_signals, data_islands)
       IN  /\ data_islands' = IF data_islands = <<>> THEN run.data_islands ELSE data_islands
           /\ IF data_islands = <<>> /\ run.raised
              THEN report' = report /\ pc' = "packets_raised"
              ELSE /\ report' = analyze_terc4_packets(data_islands').records
                   /\ pc' = IF analyze_terc4_packets(data_islands').raised
                            THEN "packets_raised" ELSE "packets_done"
    /\ UNCHANGED <<island_data, analyzerVars, scanVars, islandVars, headerVars, bchVars,
                   terc4Vars, pipeVars>>

SpecPackets == PacketsInit /\ [][AnalyzeTerc4Packets]_vars

\* The byte that the pixels at the offsets first .. first + 3 of an island
\* carry on a channel, two bits per pixel from the low bits up.
CarriedIn(pixels, first, channel) ==
    LET two(q) == PixelChannel(pixels[first + 1 + q], channel) % 4
    IN  two(0) + 4 * two(1) + 16 * two(2) + 64 * two(3)

\* The 20-bit value of a sub-packet at offset first: byte 0, byte 1 and the
\* low four bits of byte 2.
Carried20(pixels, first) ==
    CarriedIn(pixels, first, 0) + 256 * CarriedIn(pixels, first, 1)
    + 65536 * (CarriedIn(pixels, first, 2) % 16)

\* C27: for an Audio Sample or ACR packet found by analyze_terc4_packets the
\* sub-packets are the 4-pixel groups that start right after the header and
\* ECC pixels decoded for the packet, at island offset header_start + 8: at
\* most 4 of them, inside the island, none from preamble, guard, header or
\* ECC pixels.
C27_SubpacketsFromPayload ==
    pc = "packets_done" =>
        \A k \in 1..Len(report) :
            LET pixels == data_islands[k]
                payload == report[k].header_start + 8
            IN  /\ \A a \in 1..Len(report[k].audio) :
                      LET s == report[k].audio[a].samples
                      IN  /\ Len(s) <= 4
                          /\ \A i \in 1..Len(s) :
                                /\ payload + 4 * i <= Len(pixels)
                                /\ s[i].sample_present
                                      = CarriedIn(pixels, payload + 4 * (i - 1), 0)
                /\ \A a \in 1..Len(report[k].acr) :
                      ~report[k].acr[a].short =>
                          /\ payload + 8 <= Len(pixels)
                          /\ report[k].acr[a].cts = Carried20(pixels, payload)
                          /\ report[k].acr[a].n = Carried20(pixels, payload + 4)

\* C28: the islands analyze_data_islands records are non-empty runs of
\* consecutive sample indices that begin at a sample whose enable signal is
\* 1; they are recorded in strictly increasing index order, so that no sample
\* index is in two islands.  The same holds of the island being collected,
\* which lies after every island recorded so far.
C28_IslandsDisjointRuns ==
    /\ \A k \in 1..Len(samples) :
          /\ samples[k].index = samples[1].index + k - 1
          /\ samples[1].preamble_active
          /\ (pc \in {"collect", "wrap_break"} /\ packet_info # <<>>) =>
                Last(packet_info).end_time < samples[1].index
    /\ \A k \in 1..Len(packet_info) :
          LET rec == packet_info[k]
          IN  /\ rec.decoded_island.total_samples >= 1
              /\ rec.end_time - rec.start_time + 1 = rec.decoded_island.total_samples
              /\ rec.start_time \in 0..(Len(data) - 1)
              /\ rec.end_time \in 0..(Len(data) - 1)
              /\ EnableAt(rec.start_time)
              /\ k > 1 => packet_info[k - 1].end_time < rec.start_time

\* A finished scan that recorded two islands of two samples each, the second
\* right after the first.
C28_Witness ==
    /\ pc = "done"
    /\ Len(packet_info) = 2
    /\ packet_info[1].decoded_island.total_samples = 2
    /\ packet_info[2].start_time = packet_info[1].end_time + 1
    /\ packet_info[2].decoded_island.total_samples = 2

\* C29: decode_subpacket returns 7 bytes of which byte k equals byte k mod 3
\* (bytes 0, 3, 6 read ch0, bytes 1, 4 ch1, bytes 2, 5 ch2 over the same 4
\* pixels), so the left and right PCM samples of every sub-packet of an Audio
\* Sample Packet are equal.
C29_SubpacketBytesRepeat ==
    (pc = "audio_done" /\ ~report[1].short) =>
        \A i \in 1..Len(report[1].samples) :
            LET sp_bytes == decode_subpacket(island_data, 8 + 4 * (i - 1))
            IN  /\ Len(sp_bytes) = 7
                /\ \A k \in 0..6 : sp_bytes[k + 1] = sp_bytes[(k % 3) + 1]
                /\ report[1].samples[i].sample_present = sp_bytes[1]
                /\ report[1].samples[i].left_sample = report[1].samples[i].right_sample
                /\ report[1].samples[i].left_16 = report[1].samples[i].right_16

\* A sub-packet whose channels carry the bytes 0, 1 and 127: both samples are
\* 0x007F01.
C29_Witness ==
    /\ pc = "audio_done"
    /\ ~report[1].short
    /\ report[1].samples[1].sample_present = 0
    /\ report[1].samples[1].left_sample.lower = 32513
    /\ report[1].samples[1].right_sample.lower = 32513

\* The places (island, pixel) of data_islands that hold the sample of time t.
PlacesOf(islands, t) ==
    {p \in UNION {{<<k, q>> : q \in 1..Len(islands[k])} : k \in 1..Len(islands)} :
        islands[p[1]][p[2]].time = t}

\* C30: after extract_data_islands, called on a table that has the enable
\* column and the three TERC4 buses and returning without an exception, every
\* sample whose enable value is '1' is in exactly one island of data_islands,
\* the samples of a run that is still high at the last row of the capture
\* included.
C30_EverySampleExtracted ==
    [][(pc = "extract_call" /\ pc' = "extract_done"
        /\ Cardinality(DOMAIN bus_signals) = 3) =>
          \A i \in 1..Len(data) :
              (py_int(data[i][1]).ok /\ Strip(data[i][2]) = "1") =>
                  Cardinality(PlacesOf(data_islands', py_int(data[i][1]).value)) = 1]_vars

=============================================================================
